---- MODULE Spec2Model ----
(***************************************************************************)
(* Model of the recipe extraction pipeline of hebrew-recipe-extractor.     *)
(*                                                                         *)
(* Spec: one extraction request through UrlFetcher.smartFetch,             *)
(* RecipeExtractor.extract, extractRecipe, parseWithLLM / refineRecipe,    *)
(* parseImageWithLLM and the two extraction API routes.  Every await of    *)
(* the code is a step whose outcome (network, browser, generation call)    *)
(* is chosen nondeterministically.                                         *)
(* SpecFetcher: several tasks using UrlFetcher objects concurrently.       *)
(* SpecJsonLd: extractJsonLd on the JSON-LD blocks of a document.          *)
(* SpecIngredient: parseIngredient on an ingredient line.                  *)
(***************************************************************************)
EXTENDS Integers, Sequences, FiniteSets, TLC

VARIABLES
    pc,            \* position of the request in the code
    entry,         \* which entry point the caller used
    url,           \* the url argument
    options,       \* ExtractorOptions.useLlm and process.env.ANTHROPIC_API_KEY
    file,          \* the uploaded image of POST /api/extract-image
    user,          \* getUser(): authenticated or not
    browser,       \* UrlFetcher.browser is non-null
    simpleResult,  \* smartFetch's local result of simpleFetch, Null if none
    fetchResult,   \* FetchResult of smartFetch (html, cleanedText length)
    jsonLdRecipe,  \* result of parseRecipeFromHtml
    warnings,      \* the local warnings list of extract
    result,        \* what extract / extractRecipe gives its caller
    response,      \* what an API route answers
    calls,         \* external calls and parser invocations so far, in order
    \* concurrent use of UrlFetcher
    fetcherInstance,  \* the module variable fetcherInstance is non-null
    thisBrowser,      \* this.browser of each UrlFetcher, 0 for null
    launched,         \* number of chromium.launch() calls that succeeded
    live,             \* the browser processes that are running
    openContexts,     \* per task, the browser its open context belongs to
    openPages,        \* the tasks whose page is open
    task,             \* per task, the operation it runs and where it is
    \* parseRecipeFromHtml on a document
    document,         \* the script blocks of the document, in document order
    jsonLd,           \* what extractJsonLd returned for it
    \* parseIngredient on a line
    ingredientStr,    \* the line, a sequence of characters
    ingredient,       \* what parseIngredient returned for it
    \* the normalizers of parseRecipeFromHtml on a property of the recipe
    field,            \* the property: which one it is and its value
    extracted,        \* what its normalizer returned for it
    \* createDebouncedSync: the session states are numbered in schedule order
    timeoutId,        \* the timer the debouncer remembers; 0 for null
    armed,            \* the timers that are set and have not fired
    pendingState,     \* the state to send; 0 for null
    scheduled,        \* number of schedule calls; the latest state
    sent,             \* the states passed to syncToDatabase
    syncing,          \* the syncToDatabase calls in flight; by caller
    cancelledAt,      \* the latest state when cancel was last called
    \* the cooking sessions of the recipes
    sessions,         \* the rows of cooking_sessions; by id
    recent,           \* the ids of the rows; in order of last_active_time
    cookingPage,      \* per cooking page; its state and its requests in flight
    \* concurrent POST /api/extract requests of one user for one URL
    rows,             \* number of rows of recipe_recipes for the user and the URL
    request           \* per extract request of the user for the URL; where it is and its answer

pipelineVars == <<pc, entry, url, options, file, user, browser, simpleResult,
                  fetchResult,
                  jsonLdRecipe, warnings, result, response, calls>>
fetcherVars == <<fetcherInstance, thisBrowser, launched, live, openContexts,
                 openPages, task>>
jsonLdVars == <<document, jsonLd>>
ingredientVars == <<ingredientStr, ingredient>>
fieldVars == <<field, extracted>>
syncVars == <<timeoutId, armed, pendingState, scheduled, sent, syncing,
              cancelledAt>>

sessionVars == <<sessions, recent, cookingPage>>

saveVars == <<rows, request>>

vars == <<pipelineVars, fetcherVars, jsonLdVars, ingredientVars, fieldVars, syncVars, sessionVars, saveVars>>

\* what one extraction request leaves alone
outsidePipeline == <<fetcherVars, jsonLdVars, ingredientVars, fieldVars, syncVars, sessionVars, saveVars>>
\* what the other specifications leave alone
outsideFetcher == <<pipelineVars, jsonLdVars, ingredientVars, fieldVars, syncVars, sessionVars, saveVars>>
outsideJsonLd == <<pipelineVars, fetcherVars, ingredientVars, fieldVars, syncVars, sessionVars, saveVars>>
outsideIngredient == <<pipelineVars, fetcherVars, jsonLdVars, fieldVars, syncVars, sessionVars, saveVars>>
outsideFields == <<pipelineVars, fetcherVars, jsonLdVars, ingredientVars, syncVars, sessionVars, saveVars>>
outsideSync == <<pipelineVars, fetcherVars, jsonLdVars, ingredientVars, fieldVars, sessionVars, saveVars>>
outsideSessions == <<pipelineVars, fetcherVars, jsonLdVars, ingredientVars, fieldVars, syncVars, saveVars>>
outsideSave == <<pipelineVars, fetcherVars, jsonLdVars, ingredientVars, fieldVars, syncVars, sessionVars>>

----------------------------------------------------------------------------
(* Bounds *)

\* longest ingredient / step list a page or a model answer carries
MaxItems == 2

----------------------------------------------------------------------------
(* Program constants *)

MinTextLength == 500
maxTextLength == 15000
MAX_FILE_SIZE == 10485760
ALLOWED_MIME_TYPES == {"image/jpeg", "image/png", "image/gif", "image/webp"}

\* confidences are kept in hundredths: 0.9 is 90
ConfJsonLd == 90
ConfHybrid == 85
ConfLlm == 75
ConfImage == 70

\* host names are sequences of characters, as String.includes sees them
foody == <<"f","o","o","d","y",".","c","o",".","i","l">>
mako == <<"m","a","k","o",".","c","o",".","i","l">>
ynet == <<"y","n","e","t",".","c","o",".","i","l">>
tv10 == <<"1","0","t","v",".","c","o",".","i","l">>
walla == <<"w","a","l","l","a",".","c","o",".","i","l">>
jsRequiredDomains == {foody, mako, ynet, tv10, walla}

\* String.prototype.includes
Includes(s, sub) ==
    \E i \in 0..(Len(s) - Len(sub)) : SubSeq(s, i + 1, i + Len(sub)) = sub

\* hosts a caller may name: a listed host, a subdomain of one, a host that
\* merely contains a listed name, and two unrelated ones
Hosts == { mako,
           <<"w","w","w",".">> \o foody,
           <<"m","y">> \o walla \o <<".","x",".","i","o">>,
           <<"b","l","o","g",".","c","o","m">>,
           <<"y","n","e","t",".","c","o","m">> }

InvalidUrl == [valid |-> FALSE, hostname |-> <<>>]
Urls == [valid : {TRUE}, hostname : Hosts] \cup {InvalidUrl}

----------------------------------------------------------------------------
(* Data *)

Null == [null |-> TRUE]
NoImage == "null"
\* a null error field
NoError == "null"

\* lists are told apart by their origin and length
List(tag, n) == [k \in 1..n |-> <<tag, k>>]
Lists(tag) == { List(tag, n) : n \in 0..MaxItems }

\* the first JSON-LD object of type Recipe of a page, if any
\* kind "none": no such object; "illTyped": its fields are not of the
\* declared types (recipeIngredient a string, nutrition values numbers)
NoMarkup == [kind |-> "none", name |-> "", recipeIngredient |-> <<>>,
             recipeInstructions |-> <<>>, image |-> NoImage]
IllTyped == [kind |-> "illTyped", name |-> "T", recipeIngredient |-> <<>>,
             recipeInstructions |-> <<>>, image |-> NoImage]
Markups ==
    [kind : {"recipe"}, name : {"", "T"}, recipeIngredient : Lists("ld"),
     recipeInstructions : Lists("ld"), image : {NoImage, "ld.jpg"}]
    \cup {NoMarkup, IllTyped}

TextLengths == {0, MinTextLength, MinTextLength + 1, maxTextLength + 1}

\* a fetched page: its JSON-LD, its meta image tag, the length of its
\* cleaned text
Pages == [ld : Markups, meta : {NoImage, "og.jpg"}, cleanedText : TextLengths]

\* of a page that smartFetch does not return only the length is looked at
LengthOnly(page) ==
    [ld |-> NoMarkup, meta |-> NoImage, cleanedText |-> page.cleanedText]

FetchErrors == {"HTTP error! status: 404", "Timeout 30000ms exceeded"}
LaunchError == "Executable doesn't exist"
GenError == "No object generated"

\* ExtractionResult
Success(recipe, w) ==
    [kind |-> "result", success |-> TRUE, recipe |-> recipe,
     error |-> NoError, warnings |-> w]
Failure(error, w) ==
    [kind |-> "result", success |-> FALSE, recipe |-> Null,
     error |-> error, warnings |-> w]
\* an exception leaving the function instead of a result
Thrown(error) ==
    [kind |-> "thrown", success |-> FALSE, recipe |-> Null,
     error |-> error, warnings |-> <<>>]
NoResult ==
    [kind |-> "none", success |-> FALSE, recipe |-> Null,
     error |-> NoError, warnings |-> <<>>]

----------------------------------------------------------------------------
(* Pure functions *)

\* mutant: the credential check always answers yes
hasApiKey_always == TRUE

\* hasApiKey(): !!process.env.ANTHROPIC_API_KEY
hasApiKey == options.apiKey

\* smartFetch: jsRequiredDomains.some(d => urlObj.hostname.includes(d))
needsJs(u) == \E domain \in jsRequiredDomains : Includes(u.hostname, domain)

\* mutant: >= instead of >
IsSubstantial_atLeast(page) == page.cleanedText >= MinTextLength

\* smartFetch: result.cleanedText.length > 500
IsSubstantial(page) == page.cleanedText > MinTextLength

\* parseRecipeFromHtml: null without a Recipe object, otherwise the partial
\* record (one ingredient per recipeIngredient line, the non-empty steps)
parseRecipeFromHtml(html) ==
    IF html.ld.kind = "none" THEN Null
    ELSE [title |-> html.ld.name,
          ingredients |-> html.ld.recipeIngredient,
          steps |-> html.ld.recipeInstructions,
          imageUrl |-> html.ld.image,
          extractionMethod |-> "json-ld",
          confidence |-> ConfJsonLd]

\* the conversions parseRecipeFromHtml applies throw a TypeError on fields
\* that are not of the declared types
ParseThrows(html) == html.ld.kind = "illTyped"

\* mutant: at least 2 of each, as hasGoodData asks
isValidRecipe_two(recipe) ==
    IF recipe = Null THEN FALSE
    ELSE /\ recipe.title # ""
         /\ Len(recipe.ingredients) > 1
         /\ Len(recipe.steps) > 1

isValidRecipe(recipe) ==
    IF recipe = Null THEN FALSE
    ELSE /\ recipe.title # ""
         /\ Len(recipe.ingredients) > 0
         /\ Len(recipe.steps) > 0

\* mutant: > 2 instead of >= 2
hasGoodData_strict(recipe) ==
    /\ recipe.title # ""
    /\ Len(recipe.ingredients) > 2
    /\ Len(recipe.steps) > 2

\* refineRecipe: hasGoodData
hasGoodData(recipe) ==
    /\ recipe.title # ""
    /\ Len(recipe.ingredients) >= 2
    /\ Len(recipe.steps) >= 2

\* extract: the Recipe built from the JSON-LD record alone
JsonLdOnlyRecipe(partial) ==
    [title |-> IF partial.title # "" THEN partial.title ELSE "Untitled Recipe",
     ingredients |-> partial.ingredients,
     steps |-> partial.steps,
     imageUrl |-> partial.imageUrl,
     extractionMethod |-> "json-ld",
     confidence |-> ConfJsonLd]

\* what a successful generation call may answer (LLMRecipeSchema object)
LLMObjects == [title : {"T"}, ingredients : Lists("llm"), steps : Lists("llm")]

\* parseWithLLM: the Recipe built from the model's object; partialData is
\* Null where the code passes undefined
LlmRecipe(object, partialData) ==
    [title |-> object.title,
     ingredients |-> object.ingredients,
     steps |-> object.steps,
     imageUrl |-> IF partialData = Null THEN NoImage ELSE partialData.imageUrl,
     extractionMethod |-> IF partialData # Null THEN "hybrid" ELSE "llm",
     confidence |-> IF partialData # Null THEN ConfHybrid ELSE ConfLlm]

\* mutant: every valid record is handed over as partial data
RefinePartialData_always(recipe) == recipe

\* refineRecipe: the partialData argument it hands to parseWithLLM
RefinePartialData(recipe) == IF hasGoodData(recipe) THEN recipe ELSE Null

\* mutant: the full extraction never passes partial data
FullPartialData_none(recipe) == Null

\* extract: parseWithLLM(cleanedText, url, jsonLdRecipe || undefined)
FullPartialData(recipe) == recipe

\* parseWithLLM: rawText.length > maxTextLength, the text is cut and the
\* marker appended before it goes into the prompt
Truncates(rawTextLength) == rawTextLength > maxTextLength

\* parseImageWithLLM: the Recipe built from the model's object
ImageRecipe(object) ==
    [title |-> object.title,
     ingredients |-> object.ingredients,
     steps |-> object.steps,
     imageUrl |-> NoImage,
     extractionMethod |-> "image",
     confidence |-> ConfImage]

\* extractImageFromHtml: the first meta-image pattern that matches, or null
extractImageFromHtml(html) == html.meta

\* extract, full-extraction path: fill an empty imageUrl from the html
WithImageFallback(recipe, html) ==
    IF recipe.imageUrl = NoImage
    THEN [recipe EXCEPT !.imageUrl = extractImageFromHtml(html)]
    ELSE recipe

\* error texts
ErrInvalidUrl == "Invalid URL provided"
ErrLlmDisabled == "No structured data found and LLM extraction is disabled"
\* mutant: the message of the branch above, copied
ErrNoApiKey_copied == "No structured data found and LLM extraction is disabled"
ErrNoApiKey == "No structured data found and ANTHROPIC_API_KEY is not set"
FetchFailed(message) == "Failed to fetch URL: " \o message
LlmParseError(message) == "Failed to parse recipe with LLM: " \o message
RefineWarning(message) == "LLM refinement failed: " \o message
LlmFailed(message) == "LLM extraction failed: " \o message
ImageParseError(message) == "Failed to parse recipe from image: " \o message

\* supabase/db.ts: recipeToDbRecord and dbRecordToRecipe
recipeToDbRecord(recipe) ==
    [extraction_method |-> recipe.extractionMethod,
     confidence |-> recipe.confidence,
     recipe_data |-> recipe]
\* mutant: the method is read back as the column default
dbRecordToRecipe_default(record) ==
    [id |-> "row", extractionMethod |-> "json-ld"] @@ record.recipe_data
dbRecordToRecipe(record) == [id |-> "row"] @@ record.recipe_data

\* rows an earlier request of the same user may have stored for the url
StoredRecords ==
    { recipeToDbRecord(r) :
        r \in { JsonLdOnlyRecipe([title |-> "T", ingredients |-> List("ld", 1),
                                  steps |-> List("ld", 1), imageUrl |-> NoImage]),
                LlmRecipe([title |-> "T", ingredients |-> List("llm", 1),
                           steps |-> List("llm", 1)], Null) } }

----------------------------------------------------------------------------
(* Entry points *)

Entries == {"POST /api/extract", "extractRecipe", "extract",
            "POST /api/extract-image"}

Files == [size : {1, MAX_FILE_SIZE, MAX_FILE_SIZE + 1},
          type : {"image/jpeg", "image/webp", "application/pdf"}]
         \cup {Null}

\* where extract returns to
AfterExtract == IF entry = "extract" THEN "done" ELSE "close"

\* a caller issues one request
Start ==
    /\ UNCHANGED outsidePipeline
    /\ pc = "idle"
    /\ \E e \in Entries :
          /\ entry' = e
          /\ IF e = "POST /api/extract-image"
             THEN /\ file' \in Files
                  /\ UNCHANGED <<url, options>>
                  /\ pc' = "imageRoute"
             ELSE /\ url' \in Urls
                  /\ options' \in
                        IF e = "POST /api/extract"
                        THEN [useLlm : {TRUE}, apiKey : BOOLEAN]
                        ELSE [useLlm : BOOLEAN, apiKey : BOOLEAN]
                  /\ UNCHANGED file
                  /\ pc' = CASE e = "POST /api/extract" -> "route"
                             [] e = "extractRecipe" -> "init"
                             [] OTHER -> "validate"
          /\ user' \in IF e \in {"extractRecipe", "extract"}
                       THEN {FALSE} ELSE BOOLEAN
    /\ UNCHANGED <<browser, simpleResult, fetchResult, jsonLdRecipe, warnings,
                   result,
                   response, calls>>

\* POST /api/extract up to the cache lookup: url check, getUser,
\* getRecipeByUrl
RouteLookup ==
    /\ UNCHANGED outsidePipeline
    /\ pc = "route"
    /\ IF ~url.valid
       THEN /\ response' = [status |-> 400, success |-> FALSE,
                            recipe |-> Null, error |-> "Invalid URL format"]
            /\ pc' = "done"
            /\ UNCHANGED calls
       ELSE IF user
       THEN \E forceRefresh \in BOOLEAN :
            IF forceRefresh
            THEN /\ calls' = calls \o <<"getUser">>
                 /\ pc' = "init"
                 /\ UNCHANGED response
            ELSE \/ \E cached \in StoredRecords :
                      /\ calls' = calls \o <<"getUser", "select">>
                      /\ response' = [status |-> 200, success |-> TRUE,
                                      recipe |-> dbRecordToRecipe(cached),
                                      error |-> NoError]
                      /\ pc' = "done"
                 \/ /\ calls' = calls \o <<"getUser", "select">>
                    /\ pc' = "init"
                    /\ UNCHANGED response
       ELSE /\ calls' = calls \o <<"getUser">>
            /\ pc' = "init"
            /\ UNCHANGED response
    /\ UNCHANGED <<entry, url, options, file, user, browser, simpleResult,
                   fetchResult,
                   jsonLdRecipe, warnings, result>>

\* extractRecipe: await extractor.init(), i.e. UrlFetcher.init
ExtractorInit ==
    /\ UNCHANGED outsidePipeline
    /\ pc = "init"
    /\ IF browser
       THEN /\ pc' = "validate"
            /\ UNCHANGED <<browser, result, calls>>
       ELSE /\ calls' = calls \o <<"launch">>
            /\ \/ /\ browser' = TRUE
                  /\ pc' = "validate"
                  /\ UNCHANGED result
               \/ /\ result' = Thrown(LaunchError)
                  /\ pc' = "close"
                  /\ UNCHANGED browser
    /\ UNCHANGED <<entry, url, options, file, user, simpleResult, fetchResult,
                   jsonLdRecipe, warnings, response>>

\* extract: new URL(url)
ValidateUrl ==
    /\ UNCHANGED outsidePipeline
    /\ pc = "validate"
    /\ IF ~url.valid
       THEN /\ result' = Failure(ErrInvalidUrl, <<>>)
            /\ pc' = AfterExtract
       ELSE /\ pc' = "smartFetch"
            /\ UNCHANGED result
    /\ UNCHANGED <<entry, url, options, file, user, browser, simpleResult,
                   fetchResult,
                   jsonLdRecipe, warnings, response, calls>>

\* smartFetch up to its first await
SmartFetch ==
    /\ UNCHANGED outsidePipeline
    /\ pc = "smartFetch"
    /\ calls' = calls \o <<"smartFetch">>
    /\ pc' = IF needsJs(url) THEN "fetch" ELSE "simpleFetch"
    /\ UNCHANGED <<entry, url, options, file, user, browser, simpleResult,
                   fetchResult,
                   jsonLdRecipe, warnings, result, response>>

\* smartFetch: await this.simpleFetch(url) and the length check
SimpleFetch ==
    /\ UNCHANGED outsidePipeline
    /\ pc = "simpleFetch"
    /\ \/ \E page \in Pages :
            /\ calls' = calls \o <<"simpleFetch">>
            /\ IF IsSubstantial(page)
               THEN /\ simpleResult' = page
                    /\ fetchResult' = page
                    /\ pc' = "parse"
               ELSE /\ simpleResult' = LengthOnly(page)
                    /\ pc' = "fetch"
                    /\ UNCHANGED fetchResult
       \/ \* network error, non-ok status or content cleaning throws
          /\ calls' = calls \o <<"simpleFetch", "simpleFetchFailed">>
          /\ pc' = "fetch"
          /\ UNCHANGED <<simpleResult, fetchResult>>
    /\ UNCHANGED <<entry, url, options, file, user, browser, jsonLdRecipe,
                   warnings, result, response>>

\* mutant: the catch of extract logs the fetch error and goes on with an
\* empty page
Fetch_swallow ==
    /\ UNCHANGED outsidePipeline
    /\ pc = "fetch"
    /\ \/ \E message \in FetchErrors \cup {LaunchError} :
             /\ calls' = calls \o
                   (IF browser THEN <<"fetch">> ELSE <<"fetch", "launch">>)
                   \o <<"fetchFailed">>
             /\ fetchResult' = [ld |-> NoMarkup, meta |-> NoImage,
                                cleanedText |-> 0]
       \/ \E page \in Pages :
             /\ calls' = calls \o
                   (IF browser THEN <<"fetch">> ELSE <<"fetch", "launch">>)
             /\ fetchResult' = page
    /\ browser' = TRUE
    /\ pc' = "parse"
    /\ UNCHANGED <<entry, url, options, file, user, simpleResult,
                   jsonLdRecipe, warnings, result, response>>

\* UrlFetcher.fetch: page.goto(url, domcontentloaded) and, when it throws,
\* the page.goto(url, commit) of the catch block
Navigated == { <<"goto">>, <<"goto", "gotoFailed", "goto">> }
NavigationFailed == <<"goto", "gotoFailed", "goto", "gotoFailed">>

\* UrlFetcher.fetch as called by smartFetch, and the catch of extract
Fetch ==
    /\ UNCHANGED outsidePipeline
    /\ pc = "fetch"
    /\ \/ \* this.init() has to launch the browser and the launch fails
          /\ ~browser
          /\ calls' = calls \o <<"fetch", "launch", "fetchFailed">>
          /\ result' = Failure(FetchFailed(LaunchError), <<>>)
          /\ pc' = AfterExtract
          /\ UNCHANGED <<browser, fetchResult>>
       \/ \* both navigations fail
          /\ calls' = calls \o
                (IF browser THEN <<"fetch">> ELSE <<"fetch", "launch">>)
                \o NavigationFailed \o <<"fetchFailed">>
          /\ browser' = TRUE
          /\ result' = Failure(FetchFailed("Timeout 30000ms exceeded"), <<>>)
          /\ pc' = AfterExtract
          /\ UNCHANGED fetchResult
       \/ \* waitForSelector, page.content or content extraction fails
          \E navigation \in Navigated, message \in FetchErrors :
             /\ calls' = calls \o
                   (IF browser THEN <<"fetch">> ELSE <<"fetch", "launch">>)
                   \o navigation \o <<"fetchFailed">>
             /\ browser' = TRUE
             /\ result' = Failure(FetchFailed(message), <<>>)
             /\ pc' = AfterExtract
             /\ UNCHANGED fetchResult
       \/ \E navigation \in Navigated, page \in Pages :
             /\ calls' = calls \o
                   (IF browser THEN <<"fetch">> ELSE <<"fetch", "launch">>)
                   \o navigation
             /\ browser' = TRUE
             /\ fetchResult' = page
             /\ pc' = "parse"
             /\ UNCHANGED result
    /\ UNCHANGED <<entry, url, options, file, user, simpleResult,
                   jsonLdRecipe, warnings, response>>

\* extract from parseRecipeFromHtml to its next await or return
Parse ==
    /\ UNCHANGED outsidePipeline
    /\ pc = "parse"
    /\ IF ParseThrows(fetchResult)
       THEN /\ calls' = calls \o <<"parse", "parseFailed">>
            /\ result' = Thrown("TypeError")
            /\ pc' = AfterExtract
            /\ UNCHANGED jsonLdRecipe
       ELSE /\ calls' = calls \o <<"parse">>
            /\ jsonLdRecipe' = parseRecipeFromHtml(fetchResult)
            /\ IF isValidRecipe(jsonLdRecipe')
               THEN IF options.useLlm /\ hasApiKey
                    THEN /\ pc' = "refine"
                         /\ UNCHANGED result
                    ELSE /\ result' = Success(JsonLdOnlyRecipe(jsonLdRecipe'),
                                              warnings)
                         /\ pc' = AfterExtract
               ELSE IF ~options.useLlm
                    THEN /\ result' = Failure(ErrLlmDisabled, warnings)
                         /\ pc' = AfterExtract
                    ELSE IF ~hasApiKey
                    THEN /\ result' = Failure(ErrNoApiKey, warnings)
                         /\ pc' = AfterExtract
                    ELSE /\ pc' = "llm"
                         /\ UNCHANGED result
    /\ UNCHANGED <<entry, url, options, file, user, browser, simpleResult,
                   fetchResult,
                   warnings, response>>

\* mutant: a failed refinement ends the extraction as failed
Refine_fatal ==
    /\ UNCHANGED outsidePipeline
    /\ pc = "refine"
    /\ \/ \E object \in LLMObjects :
             /\ calls' = calls \o <<"generate">>
             /\ result' = Success(
                   LlmRecipe(object, RefinePartialData(jsonLdRecipe)), warnings)
       \/ /\ calls' = calls \o <<"generate", "generateFailed">>
          /\ result' = Failure(LlmFailed(LlmParseError(GenError)), warnings)
    /\ pc' = AfterExtract
    /\ UNCHANGED <<entry, url, options, file, user, browser, simpleResult,
                   fetchResult, jsonLdRecipe, warnings, response>>

\* extract: await refineRecipe(...) and what follows it
Refine ==
    /\ UNCHANGED outsidePipeline
    /\ pc = "refine"
    /\ \/ \E object \in LLMObjects :
             /\ calls' = calls \o <<"generate">>
             /\ result' = Success(
                   LlmRecipe(object, RefinePartialData(jsonLdRecipe)), warnings)
             /\ UNCHANGED warnings
       \/ /\ calls' = calls \o <<"generate", "generateFailed">>
          /\ warnings' = Append(warnings,
                                RefineWarning(LlmParseError(GenError)))
          /\ result' = Success(JsonLdOnlyRecipe(jsonLdRecipe), warnings')
    /\ pc' = AfterExtract
    /\ UNCHANGED <<entry, url, options, file, user, browser, simpleResult,
                   fetchResult, jsonLdRecipe, response>>

\* mutant: a failed generation call is made a second time
LlmExtract_retry ==
    /\ UNCHANGED outsidePipeline
    /\ pc = "llm"
    /\ \/ \E object \in LLMObjects :
             /\ calls' = calls \o <<"generate">>
             /\ result' = Success(
                   WithImageFallback(
                       LlmRecipe(object, FullPartialData(jsonLdRecipe)),
                       fetchResult),
                   warnings)
       \/ /\ calls' = calls \o <<"generate", "generateFailed", "generate",
                                  "generateFailed">>
          /\ result' = Failure(LlmFailed(LlmParseError(GenError)), warnings)
    /\ pc' = AfterExtract
    /\ UNCHANGED <<entry, url, options, file, user, browser, simpleResult,
                   fetchResult, jsonLdRecipe, warnings, response>>

\* extract: await parseWithLLM(cleanedText, url, jsonLdRecipe || undefined)
\* and what follows it
LlmExtract ==
    /\ UNCHANGED outsidePipeline
    /\ pc = "llm"
    /\ \/ \E object \in LLMObjects :
             /\ calls' = calls \o <<"generate">>
             /\ result' = Success(
                   WithImageFallback(
                       LlmRecipe(object, FullPartialData(jsonLdRecipe)),
                       fetchResult),
                   warnings)
       \/ /\ calls' = calls \o <<"generate", "generateFailed">>
          /\ result' = Failure(LlmFailed(LlmParseError(GenError)), warnings)
    /\ pc' = AfterExtract
    /\ UNCHANGED <<entry, url, options, file, user, browser, simpleResult,
                   fetchResult, jsonLdRecipe, warnings, response>>

\* extractRecipe: finally { await extractor.close() }
Close ==
    /\ UNCHANGED outsidePipeline
    /\ pc = "close"
    /\ IF browser
       THEN /\ calls' = calls \o <<"close">>
            /\ browser' = FALSE
       ELSE UNCHANGED <<calls, browser>>
    /\ pc' = IF entry = "POST /api/extract" THEN "respond" ELSE "done"
    /\ UNCHANGED <<entry, url, options, file, user, simpleResult, fetchResult,
                   jsonLdRecipe, warnings, result, response>>

\* saveRecipe as the routes use it: the row is written and read back, or the
\* write is rejected and the route keeps the recipe it has
SavedOrKept(recipe, saved) ==
    IF saved THEN dbRecordToRecipe(recipeToDbRecord(recipe)) ELSE recipe

\* POST /api/extract after extractRecipe has returned or thrown
RouteRespond ==
    /\ UNCHANGED outsidePipeline
    /\ pc = "respond"
    /\ IF result.kind = "thrown"
       THEN /\ response' = [status |-> 500, success |-> FALSE,
                            recipe |-> Null, error |-> result.error]
            /\ UNCHANGED calls
       ELSE IF ~result.success
       THEN /\ response' = [status |-> 422, success |-> FALSE,
                            recipe |-> Null, error |-> result.error]
            /\ UNCHANGED calls
       ELSE IF user /\ result.recipe # Null
       THEN \E saved \in BOOLEAN :
               /\ response' = [status |-> 200, success |-> TRUE,
                               recipe |-> SavedOrKept(result.recipe, saved),
                               error |-> NoError]
               /\ calls' = calls \o <<"save">>
       ELSE /\ response' = [status |-> 200, success |-> TRUE,
                            recipe |-> result.recipe, error |-> NoError]
            /\ UNCHANGED calls
    /\ pc' = "done"
    /\ UNCHANGED <<entry, url, options, file, user, browser, simpleResult,
                   fetchResult,
                   jsonLdRecipe, warnings, result>>

\* POST /api/extract-image: the checks on the uploaded file
ImageRoute ==
    /\ UNCHANGED outsidePipeline
    /\ pc = "imageRoute"
    /\ IF file = Null
       THEN /\ response' = [status |-> 400, success |-> FALSE, recipe |-> Null,
                            error |-> "Image file is required"]
            /\ pc' = "done"
       ELSE IF file.size > MAX_FILE_SIZE
       THEN /\ response' = [status |-> 400, success |-> FALSE, recipe |-> Null,
                            error |-> "Image file is too large. Maximum size is 10MB."]
            /\ pc' = "done"
       ELSE IF file.type \notin ALLOWED_MIME_TYPES
       THEN /\ response' = [status |-> 400, success |-> FALSE, recipe |-> Null,
                            error |-> "Invalid file type. Supported formats: JPEG, PNG, GIF, WebP"]
            /\ pc' = "done"
       ELSE /\ pc' = "imageParse"
            /\ UNCHANGED response
    /\ UNCHANGED <<entry, url, options, file, user, browser, simpleResult,
                   fetchResult,
                   jsonLdRecipe, warnings, result, calls>>

\* POST /api/extract-image: await parseImageWithLLM(base64, file.type)
ImageParse ==
    /\ UNCHANGED outsidePipeline
    /\ pc = "imageParse"
    /\ \/ \E object \in LLMObjects :
             /\ calls' = calls \o <<"generate">>
             /\ result' = [kind |-> "recipe", success |-> TRUE,
                           recipe |-> ImageRecipe(object), error |-> NoError,
                           warnings |-> <<>>]
             /\ pc' = "imageSave"
             /\ UNCHANGED response
       \/ /\ calls' = calls \o <<"generate", "generateFailed">>
          /\ response' = [status |-> 500, success |-> FALSE, recipe |-> Null,
                          error |-> ImageParseError(GenError)]
          /\ pc' = "done"
          /\ UNCHANGED result
    /\ UNCHANGED <<entry, url, options, file, user, browser, simpleResult,
                   fetchResult, jsonLdRecipe, warnings>>

\* POST /api/extract-image: getUser, saveRecipe and the answer
ImageSave ==
    /\ UNCHANGED outsidePipeline
    /\ pc = "imageSave"
    /\ IF user
       THEN \E saved \in BOOLEAN :
               /\ response' = [status |-> 200, success |-> TRUE,
                               recipe |-> SavedOrKept(result.recipe, saved),
                               error |-> NoError]
               /\ calls' = calls \o <<"getUser", "save">>
       ELSE /\ response' = [status |-> 200, success |-> TRUE,
                            recipe |-> result.recipe, error |-> NoError]
            /\ calls' = calls \o <<"getUser">>
    /\ pc' = "done"
    /\ UNCHANGED <<entry, url, options, file, user, browser, simpleResult,
                   fetchResult,
                   jsonLdRecipe, warnings, result>>

Count(kind) == Cardinality({ i \in 1..Len(calls) : calls[i] = kind })

\* no task uses a UrlFetcher
FetcherIdle ==
    /\ fetcherInstance = FALSE
    /\ thisBrowser = <<>>
    /\ launched = 0
    /\ live = {}
    /\ openContexts = <<>>
    /\ openPages = {}
    /\ task = <<>>

\* no document is being parsed
JsonLdIdle ==
    /\ document = <<>>
    /\ jsonLd = [scanned |-> FALSE, found |-> Null]

\* no ingredient line is being parsed
IngredientIdle ==
    /\ ingredientStr = <<>>
    /\ ingredient = Null

\* no property of a recipe is being normalized
FieldsIdle ==
    /\ field = [kind |-> "none", value |-> <<>>]
    /\ extracted = [done |-> FALSE, value |-> <<>>]

\* the debouncer has just been created
SyncIdle ==
    /\ timeoutId = 0
    /\ armed = {}
    /\ pendingState = 0
    /\ scheduled = 0
    /\ sent = {}
    /\ syncing = [timer |-> 0, flush |-> 0]
    /\ cancelledAt = 0

\* no cooking session has been created and no cooking page is open
SessionsIdle ==
    /\ sessions = <<>>
    /\ recent = <<>>
    /\ cookingPage = <<>>

\* no extract request of the user is under way and nothing is stored
SaveIdle ==
    /\ rows = 0
    /\ request = <<>>

\* the request has not been issued
PipelineIdle ==
    /\ pc = "idle"
    /\ entry = "none"
    /\ url = InvalidUrl
    /\ options = [useLlm |-> TRUE, apiKey |-> FALSE]
    /\ file = Null
    /\ user = FALSE
    /\ browser = FALSE
    /\ simpleResult = Null
    /\ fetchResult = Null
    /\ jsonLdRecipe = Null
    /\ warnings = <<>>
    /\ result = NoResult
    /\ response = Null
    /\ calls = <<>>

Init ==
    /\ PipelineIdle
    /\ FetcherIdle
    /\ JsonLdIdle
    /\ IngredientIdle
    /\ FieldsIdle
    /\ SyncIdle
    /\ SessionsIdle
    /\ SaveIdle

Next ==
    \/ Start
    \/ RouteLookup
    \/ ExtractorInit
    \/ ValidateUrl
    \/ SmartFetch
    \/ SimpleFetch
    \/ Fetch
    \/ Parse
    \/ Refine
    \/ LlmExtract
    \/ Close
    \/ RouteRespond
    \/ ImageRoute
    \/ ImageParse
    \/ ImageSave

Spec == Init /\ [][Next]_vars

TypeOK ==
    /\ pc \in {"idle", "route", "init", "validate", "smartFetch",
               "simpleFetch", "fetch", "parse", "refine", "llm", "close",
               "respond", "imageRoute", "imageParse", "imageSave", "done"}
    /\ entry \in Entries \cup {"none"}
    /\ browser \in BOOLEAN
    /\ result.kind \in {"none", "result", "thrown", "recipe"}

----------------------------------------------------------------------------
(* Concurrent use of UrlFetcher: init, close, fetch, getFetcher and         *)
(* extractRecipe run by several tasks of one process.  A step is the code   *)
(* between two awaits.                                                      *)

\* number of concurrent tasks
NumTasks == 2
\* chromium.launch() succeeds at most this often
MaxLaunches == 2

Tasks == 1..NumTasks
\* the UrlFetcher objects: 0 is the one getFetcher hands out, t is the one
\* the RecipeExtractor of task t's extractRecipe call creates
Fetchers == 0..NumTasks
Operations == {"init", "close", "fetch", "getFetcher", "extractRecipe"}
Outcomes == {"none", "returned", "launch", "notInitialized", "newContext",
             "newPage", "navigation", "content"}

\* op: the operation; fetcher: the UrlFetcher it runs on; inFetch: init was
\* called by fetch; page: the local variable page of fetch is non-null;
\* closing: the browser close() is closing; outcome: how the fetch of the
\* operation ended
IdleTask == [op |-> "none", pc |-> "idle", fetcher |-> 0, inFetch |-> FALSE,
             page |-> FALSE, closing |-> 0, outcome |-> "none"]

\* where init returns to
AfterInit(tk) ==
    IF tk.inFetch THEN "newContext"
    ELSE IF tk.op = "extractRecipe" THEN "extract" ELSE "idle"

\* where fetch returns or throws to: the finally of extractRecipe, or the
\* caller
AfterFetch(tk) == IF tk.op = "extractRecipe" THEN "closeCheck" ELSE "idle"

Goes(tk, to) == IF to = "idle" THEN IdleTask ELSE [tk EXCEPT !.pc = to]

\* a task calls init(), close() or fetch() on the fetcher it got from
\* getFetcher, or getFetcher(), or extractRecipe()
StartOp(t) ==
    /\ task[t].pc = "idle"
    /\ \E op \in Operations :
          /\ op \in {"init", "close", "fetch"} => fetcherInstance
          /\ task' = [task EXCEPT ![t] =
                [IdleTask EXCEPT
                    !.op = op,
                    !.fetcher = IF op = "extractRecipe" THEN t ELSE 0,
                    !.inFetch = (op = "fetch"),
                    !.pc = CASE op = "close" -> "closeCheck"
                             [] op = "getFetcher" -> "getFetcher"
                             [] OTHER -> "initCheck"]]
    /\ UNCHANGED <<fetcherInstance, thisBrowser, launched, live, openContexts,
                   openPages>>
    /\ UNCHANGED outsideFetcher

\* getFetcher up to its await
GetFetcher(t) ==
    /\ task[t].pc = "getFetcher"
    /\ IF ~fetcherInstance
       THEN /\ fetcherInstance' = TRUE
            /\ task' = [task EXCEPT ![t] =
                  Goes(@, IF thisBrowser[0] = 0 THEN "launching" ELSE "idle")]
       ELSE /\ task' = [task EXCEPT ![t] = Goes(@, "idle")]
            /\ UNCHANGED fetcherInstance
    /\ UNCHANGED <<thisBrowser, launched, live, openContexts, openPages>>
    /\ UNCHANGED outsideFetcher

\* init: if (!this.browser)
InitCheck(t) ==
    /\ task[t].pc = "initCheck"
    /\ task' = [task EXCEPT ![t] =
          Goes(@, IF thisBrowser[@.fetcher] = 0 THEN "launching"
                  ELSE AfterInit(@))]
    /\ UNCHANGED <<fetcherInstance, thisBrowser, launched, live, openContexts,
                   openPages>>
    /\ UNCHANGED outsideFetcher

\* init: this.browser = await chromium.launch(...)
Launch(t) ==
    /\ task[t].pc = "launching"
    /\ \/ /\ launched < MaxLaunches
          /\ launched' = launched + 1
          /\ live' = live \cup {launched'}
          /\ thisBrowser' = [thisBrowser EXCEPT ![task[t].fetcher] = launched']
          /\ task' = [task EXCEPT ![t] = Goes(@, AfterInit(@))]
       \/ /\ task' = [task EXCEPT ![t] =
                Goes([@ EXCEPT !.outcome = "launch"], AfterFetch(@))]
          /\ UNCHANGED <<launched, live, thisBrowser>>
    /\ UNCHANGED <<fetcherInstance, openContexts, openPages>>
    /\ UNCHANGED outsideFetcher

\* extractRecipe: extractor.extract(url) up to the rendered fetch, if it
\* makes one
Extract(t) ==
    /\ task[t].pc = "extract"
    /\ \/ task' = [task EXCEPT ![t] = [@ EXCEPT !.inFetch = TRUE,
                                                !.pc = "initCheck"]]
       \/ task' = [task EXCEPT ![t] = Goes(@, "closeCheck")]
    /\ UNCHANGED <<fetcherInstance, thisBrowser, launched, live, openContexts,
                   openPages>>
    /\ UNCHANGED outsideFetcher

\* fetch: if (!this.browser) throw; await this.browser.newContext(...)
NewContext(t) ==
    /\ task[t].pc = "newContext"
    /\ LET b == thisBrowser[task[t].fetcher]
       IN  IF b = 0
           THEN /\ task' = [task EXCEPT ![t] =
                      Goes([@ EXCEPT !.outcome = "notInitialized"],
                           AfterFetch(@))]
                /\ UNCHANGED openContexts
           ELSE \/ /\ b \in live
                   /\ openContexts' = [openContexts EXCEPT ![t] = b]
                   /\ task' = [task EXCEPT ![t] = Goes(@, "newPage")]
                \/ /\ task' = [task EXCEPT ![t] =
                         Goes([@ EXCEPT !.outcome = "newContext"],
                              AfterFetch(@))]
                   /\ UNCHANGED openContexts
    /\ UNCHANGED <<fetcherInstance, thisBrowser, launched, live, openPages>>
    /\ UNCHANGED outsideFetcher

\* fetch: page = await context.newPage() and page.route
NewPage(t) ==
    /\ task[t].pc = "newPage"
    /\ \/ /\ openContexts[t] # 0
          /\ openPages' = openPages \cup {t}
          /\ task' = [task EXCEPT ![t] = [@ EXCEPT !.page = TRUE,
                                                   !.pc = "goto"]]
       \/ /\ task' = [task EXCEPT ![t] = [@ EXCEPT !.outcome = "newPage",
                                                   !.pc = "closePage"]]
          /\ UNCHANGED openPages
    /\ UNCHANGED <<fetcherInstance, thisBrowser, launched, live, openContexts>>
    /\ UNCHANGED outsideFetcher

\* fetch: await page.goto(url, {waitUntil: 'domcontentloaded'}) and the waits
Goto(t) ==
    /\ task[t].pc = "goto"
    /\ \/ /\ t \in openPages
          /\ task' = [task EXCEPT ![t] = Goes(@, "content")]
       \/ task' = [task EXCEPT ![t] = Goes(@, "gotoCommit")]
    /\ UNCHANGED <<fetcherInstance, thisBrowser, launched, live, openContexts,
                   openPages>>
    /\ UNCHANGED outsideFetcher

\* fetch, catch (navError): await page.goto(url, {waitUntil: 'commit'})
GotoCommit(t) ==
    /\ task[t].pc = "gotoCommit"
    /\ \/ /\ t \in openPages
          /\ task' = [task EXCEPT ![t] = Goes(@, "content")]
       \/ task' = [task EXCEPT ![t] = [@ EXCEPT !.outcome = "navigation",
                                                !.pc = "closePage"]]
    /\ UNCHANGED <<fetcherInstance, thisBrowser, launched, live, openContexts,
                   openPages>>
    /\ UNCHANGED outsideFetcher

\* fetch: waitForSelector, page.content(), extractCleanContent and return
Content(t) ==
    /\ task[t].pc = "content"
    /\ \/ /\ t \in openPages
          /\ task' = [task EXCEPT ![t] = [@ EXCEPT !.outcome = "returned",
                                                   !.pc = "closePage"]]
       \/ task' = [task EXCEPT ![t] = [@ EXCEPT !.outcome = "content",
                                                !.pc = "closePage"]]
    /\ UNCHANGED <<fetcherInstance, thisBrowser, launched, live, openContexts,
                   openPages>>
    /\ UNCHANGED outsideFetcher

\* mutant: context.close() is inside the if (page)
ClosePage_only(t) ==
    /\ task[t].pc = "closePage"
    /\ openPages' = IF task[t].page THEN openPages \ {t} ELSE openPages
    /\ task' = [task EXCEPT ![t] =
          IF @.page THEN Goes(@, "closeContext") ELSE Goes(@, AfterFetch(@))]
    /\ UNCHANGED <<fetcherInstance, thisBrowser, launched, live, openContexts>>
    /\ UNCHANGED outsideFetcher

\* fetch, finally: if (page) await page.close()
ClosePage(t) ==
    /\ task[t].pc = "closePage"
    /\ openPages' = IF task[t].page THEN openPages \ {t} ELSE openPages
    /\ task' = [task EXCEPT ![t] = Goes(@, "closeContext")]
    /\ UNCHANGED <<fetcherInstance, thisBrowser, launched, live, openContexts>>
    /\ UNCHANGED outsideFetcher

\* fetch, finally: await context.close()
CloseContext(t) ==
    /\ task[t].pc = "closeContext"
    /\ openContexts' = [openContexts EXCEPT ![t] = 0]
    /\ task' = [task EXCEPT ![t] = Goes(@, AfterFetch(@))]
    /\ UNCHANGED <<fetcherInstance, thisBrowser, launched, live, openPages>>
    /\ UNCHANGED outsideFetcher

\* close: if (this.browser), up to await this.browser.close()
CloseCheck(t) ==
    /\ task[t].pc = "closeCheck"
    /\ task' = [task EXCEPT ![t] =
          IF thisBrowser[@.fetcher] = 0 THEN Goes(@, "idle")
          ELSE [@ EXCEPT !.closing = thisBrowser[task[t].fetcher],
                         !.pc = "closing"]]
    /\ UNCHANGED <<fetcherInstance, thisBrowser, launched, live, openContexts,
                   openPages>>
    /\ UNCHANGED outsideFetcher

\* close: the browser has closed, with its contexts and pages;
\* this.browser = null
BrowserClose(t) ==
    /\ task[t].pc = "closing"
    /\ LET b == task[t].closing
       IN  /\ live' = live \ {b}
           /\ openContexts' = [u \in Tasks |->
                 IF openContexts[u] = b THEN 0 ELSE openContexts[u]]
           /\ openPages' = { u \in openPages : openContexts[u] # b }
    /\ thisBrowser' = [thisBrowser EXCEPT ![task[t].fetcher] = 0]
    /\ task' = [task EXCEPT ![t] = Goes(@, "idle")]
    /\ UNCHANGED <<fetcherInstance, launched>>
    /\ UNCHANGED outsideFetcher

FetcherInit ==
    /\ PipelineIdle
    /\ JsonLdIdle
    /\ IngredientIdle
    /\ FieldsIdle
    /\ SyncIdle
    /\ SessionsIdle
    /\ SaveIdle
    /\ fetcherInstance = FALSE
    /\ thisBrowser = [f \in Fetchers |-> 0]
    /\ launched = 0
    /\ live = {}
    /\ openContexts = [t \in Tasks |-> 0]
    /\ openPages = {}
    /\ task = [t \in Tasks |-> IdleTask]

FetcherNext ==
    \/ \E t \in Tasks : StartOp(t)
    \/ \E t \in Tasks : GetFetcher(t)
    \/ \E t \in Tasks : InitCheck(t)
    \/ \E t \in Tasks : Launch(t)
    \/ \E t \in Tasks : Extract(t)
    \/ \E t \in Tasks : NewContext(t)
    \/ \E t \in Tasks : NewPage(t)
    \/ \E t \in Tasks : Goto(t)
    \/ \E t \in Tasks : GotoCommit(t)
    \/ \E t \in Tasks : Content(t)
    \/ \E t \in Tasks : ClosePage(t)
    \/ \E t \in Tasks : CloseContext(t)
    \/ \E t \in Tasks : CloseCheck(t)
    \/ \E t \in Tasks : BrowserClose(t)

SpecFetcher == FetcherInit /\ [][FetcherNext]_vars

FetcherTypeOK ==
    /\ fetcherInstance \in BOOLEAN
    /\ thisBrowser \in [Fetchers -> 0..MaxLaunches]
    /\ launched \in 0..MaxLaunches
    /\ live \subseteq 1..launched
    /\ openContexts \in [Tasks -> 0..MaxLaunches]
    /\ openPages \subseteq Tasks
    /\ \A t \in Tasks : /\ task[t].op \in Operations \cup {"none"}
                        /\ task[t].outcome \in Outcomes

----------------------------------------------------------------------------
(* extractJsonLd on a document: the script[type="application/ld+json"]     *)
(* blocks in document order, each malformed, an object or a list            *)

\* most blocks of a document
MaxBlocks == 2
\* most members of an @graph array or of a top-level list
MaxMembers == 2

UpperCase == <<"A","B","C","D","E","F","G","H","I","J","K","L","M",
               "N","O","P","Q","R","S","T","U","V","W","X","Y","Z">>
LowerCase == <<"a","b","c","d","e","f","g","h","i","j","k","l","m",
               "n","o","p","q","r","s","t","u","v","w","x","y","z">>

\* String.prototype.toLowerCase on a sequence of characters
toLowerCase(str) ==
    [k \in 1..Len(str) |->
        IF \E n \in 1..26 : UpperCase[n] = str[k]
        THEN LowerCase[CHOOSE n \in 1..26 : UpperCase[n] = str[k]]
        ELSE str[k]]

RecipeName == <<"R","e","c","i","p","e">>
recipeName == <<"r","e","c","i","p","e">>
ArticleName == <<"A","r","t","i","c","l","e">>
NutritionName == <<"N","u","t","r","i","t","i","o","n">>

\* an @type: a string, an array of strings, or absent
NoType == [isArray |-> FALSE, values |-> <<>>]
TypeValues ==
    { [isArray |-> FALSE, values |-> <<RecipeName>>],
      [isArray |-> FALSE, values |-> <<recipeName>>],
      [isArray |-> TRUE, values |-> <<RecipeName, NutritionName>>],
      [isArray |-> FALSE, values |-> <<ArticleName>>],
      NoType }
MemberTypes ==
    { [isArray |-> FALSE, values |-> <<RecipeName>>],
      [isArray |-> FALSE, values |-> <<ArticleName>>] }

SeqsUpTo(S, n) == UNION { [1..m -> S] : m \in 0..n }

\* an @graph: absent, an array of typed objects, or a single object
NoGraph == [kind |-> "absent", items |-> <<>>]
Members == [type : MemberTypes, graph : {NoGraph}]
GraphValues ==
    {NoGraph}
    \cup [kind : {"array"}, items : SeqsUpTo(Members, MaxMembers)]
    \cup [kind : {"object"},
          items : { <<[type |-> [isArray |-> FALSE, values |-> <<RecipeName>>],
                      graph |-> NoGraph]>> }]

\* the items of a top-level list: typed objects, or an untyped object that
\* holds a Recipe in its @graph
ListItems ==
    Members
    \cup { [type |-> NoType,
            graph |-> [kind |-> "array",
                       items |-> <<[type |-> [isArray |-> FALSE,
                                              values |-> <<RecipeName>>],
                                    graph |-> NoGraph]>>]] }

Malformed == [kind |-> "malformed", type |-> NoType, graph |-> NoGraph,
              items |-> <<>>]
Blocks ==
    {Malformed}
    \cup [kind : {"object"}, type : TypeValues, graph : GraphValues,
          items : {<<>>}]
    \cup [kind : {"list"}, type : {NoType}, graph : {NoGraph},
          items : SeqsUpTo(ListItems, MaxMembers)]

Documents == SeqsUpTo(Blocks, MaxBlocks)

\* isRecipeType for an object
isRecipeType(obj) ==
    IF obj.type.isArray
    THEN \E k \in 1..Len(obj.type.values) :
            toLowerCase(obj.type.values[k]) = recipeName
    ELSE /\ Len(obj.type.values) = 1
         /\ toLowerCase(obj.type.values[1]) = recipeName

\* which object of the document: the block, the part of it (the object
\* itself, a member of its @graph, an item of the list, a member of the
\* @graph of an item), and the positions in the list and in the @graph
Path(block, part, index, member) ==
    [block |-> block, part |-> part, index |-> index, member |-> member]

\* the least k with P[k], the sequence of booleans P having one
FirstTrue(P) == CHOOSE k \in 1..Len(P) : P[k] /\ \A j \in 1..(k - 1) : ~P[j]

\* one pass of the for loop of extractJsonLd: the object it returns from
\* block i, or Null when it goes on to the next block
ScanBlock(doc, i) ==
    LET data == doc[i]
        inGraph == [k \in 1..Len(data.graph.items) |->
                       isRecipeType(data.graph.items[k])]
        inList == [k \in 1..Len(data.items) |-> isRecipeType(data.items[k])]
    IN  IF data.kind = "malformed" THEN Null
        ELSE IF data.graph.kind = "object" THEN Null
        ELSE IF data.graph.kind = "array" /\ \E k \in DOMAIN inGraph : inGraph[k]
        THEN Path(i, "graph", FirstTrue(inGraph), 0)
        ELSE IF data.kind = "object" /\ isRecipeType(data)
        THEN Path(i, "self", 0, 0)
        ELSE IF data.kind = "list" /\ \E k \in DOMAIN inList : inList[k]
        THEN Path(i, "list", FirstTrue(inList), 0)
        ELSE Null

RECURSIVE ScanFrom(_, _)
ScanFrom(doc, i) ==
    IF i > Len(doc) THEN Null
    ELSE IF ScanBlock(doc, i) # Null THEN ScanBlock(doc, i)
    ELSE ScanFrom(doc, i + 1)

extractJsonLd(doc) == ScanFrom(doc, 1)

Unscanned == [scanned |-> FALSE, found |-> Null]

\* parseRecipeFromHtml: const jsonLd = extractJsonLd(html)
ExtractJsonLd ==
    /\ ~jsonLd.scanned
    /\ jsonLd' = [scanned |-> TRUE, found |-> extractJsonLd(document)]
    /\ UNCHANGED document
    /\ UNCHANGED outsideJsonLd

JsonLdInit ==
    /\ PipelineIdle
    /\ FetcherIdle
    /\ IngredientIdle
    /\ FieldsIdle
    /\ SyncIdle
    /\ SessionsIdle
    /\ SaveIdle
    /\ document \in Documents
    /\ jsonLd = Unscanned

JsonLdNext == ExtractJsonLd

SpecJsonLd == JsonLdInit /\ [][JsonLdNext]_vars

----------------------------------------------------------------------------
(* parseIngredient on a line.  Strings are sequences of characters; numbers *)
(* are fractions num / den in lowest terms.                                 *)

\* largest numeral a line starts with
MaxNumeral == 3

WhiteSpace == {" "}
DigitChars == <<"0","1","2","3","4","5","6","7","8","9">>
IsDigit(c) == \E n \in 1..10 : DigitChars[n] = c
DigitValue(c) == (CHOOSE n \in 1..10 : DigitChars[n] = c) - 1
\* \w of a regular expression
IsWordChar(c) ==
    \/ IsDigit(c)
    \/ c = "_"
    \/ \E n \in 1..26 : c = UpperCase[n] \/ c = LowerCase[n]

SetMin(S) == CHOOSE x \in S : \A y \in S : x <= y
SetMax(S) == CHOOSE x \in S : \A y \in S : x >= y

RECURSIVE GCD(_, _)
GCD(a, b) == IF b = 0 THEN a ELSE GCD(b, a % b)
\* the number a / b; b = 0 stands for Infinity or NaN
Number(a, b) ==
    IF b = 0 THEN [num |-> a, den |-> 0]
    ELSE [num |-> a \div GCD(a, b), den |-> b \div GCD(a, b)]

NoQuantity == [num |-> 0, den |-> 0]
NoUnit == "null"
NoComments == <<"null">>

\* String.prototype.trim
trim(s) ==
    LET kept == { k \in 1..Len(s) : s[k] \notin WhiteSpace }
    IN  IF kept = {} THEN <<>> ELSE SubSeq(s, SetMin(kept), SetMax(kept))

\* String.prototype.indexOf, counted from 1, 0 when there is none
indexOf(s, sub) ==
    IF Includes(s, sub)
    THEN 1 + SetMin({ i \in 0..(Len(s) - Len(sub)) :
                         SubSeq(s, i + 1, i + Len(sub)) = sub })
    ELSE 0

\* String.prototype.replace(sub, ''): the first occurrence is removed
remove(s, sub) ==
    IF indexOf(s, sub) = 0 THEN s
    ELSE SubSeq(s, 1, indexOf(s, sub) - 1)
         \o SubSeq(s, indexOf(s, sub) + Len(sub), Len(s))

HEBREW_UNIT_MAP == <<
    [word |-> <<"כ","ו","ס">>, code |-> "cup"],  \* כוס
    [word |-> <<"כ","ו","ס","ו","ת">>, code |-> "cup"],  \* כוסות
    [word |-> <<"כ","ף">>, code |-> "tbsp"],  \* כף
    [word |-> <<"כ","פ","ו","ת">>, code |-> "tbsp"],  \* כפות
    [word |-> <<"כ","ף"," ","ג","ד","ו","ש","ה">>, code |-> "tbsp"],  \* כף גדושה
    [word |-> <<"כ","פ","י","ת">>, code |-> "tsp"],  \* כפית
    [word |-> <<"כ","פ","י","ו","ת">>, code |-> "tsp"],  \* כפיות
    [word |-> <<"מ","\"","ל">>, code |-> "ml"],  \* מ"ל
    [word |-> <<"מ","י","ל","י","ל","י","ט","ר">>, code |-> "ml"],  \* מיליליטר
    [word |-> <<"ל","י","ט","ר">>, code |-> "l"],  \* ליטר
    [word |-> <<"ל","'">>, code |-> "l"],  \* ל'
    [word |-> <<"ג","ר","ם">>, code |-> "g"],  \* גרם
    [word |-> <<"ג","'">>, code |-> "g"],  \* ג'
    [word |-> <<"ג","\"","ר">>, code |-> "g"],  \* ג"ר
    [word |-> <<"ק","י","ל","ו">>, code |-> "kg"],  \* קילו
    [word |-> <<"ק","\"","ג">>, code |-> "kg"],  \* ק"ג
    [word |-> <<"ק","י","ל","ו","ג","ר","ם">>, code |-> "kg"],  \* קילוגרם
    [word |-> <<"י","ח","י","ד","ה">>, code |-> "piece"],  \* יחידה
    [word |-> <<"י","ח","י","ד","ו","ת">>, code |-> "piece"],  \* יחידות
    [word |-> <<"פ","ר","ו","ס","ה">>, code |-> "slice"],  \* פרוסה
    [word |-> <<"פ","ר","ו","ס","ו","ת">>, code |-> "slice"],  \* פרוסות
    [word |-> <<"ש","ן">>, code |-> "clove"],  \* שן
    [word |-> <<"ש","י","נ","י">>, code |-> "clove"],  \* שיני
    [word |-> <<"ש","י","נ","י","י","ם">>, code |-> "clove"],  \* שיניים
    [word |-> <<"צ","ר","ו","ר">>, code |-> "bunch"],  \* צרור
    [word |-> <<"א","ג","ו","ד","ה">>, code |-> "bunch"],  \* אגודה
    [word |-> <<"ח","ב","י","ל","ה">>, code |-> "package"],  \* חבילה
    [word |-> <<"ש","ק","י","ת">>, code |-> "bag"],  \* שקית
    [word |-> <<"ש","ק","י","ו","ת">>, code |-> "bag"],  \* שקיות
    [word |-> <<"פ","ח","י","ת">>, code |-> "can"],  \* פחית
    [word |-> <<"ק","ו","פ","ס","ה">>, code |-> "can"],  \* קופסה
    [word |-> <<"צ","נ","צ","נ","ת">>, code |-> "jar"],  \* צנצנת
    [word |-> <<"ק","ו","ר","ט">>, code |-> "pinch"],  \* קורט
    [word |-> <<"ק","מ","צ","ו","ץ">>, code |-> "pinch"],  \* קמצוץ
    [word |-> <<"מ","ע","ט">>, code |-> "dash"],  \* מעט
    [word |-> <<"ל","פ","י"," ","ה","ט","ע","ם">>, code |-> "to_taste"],  \* לפי הטעם
    [word |-> <<"ל","ט","ע","י","מ","ה">>, code |-> "to_taste"],  \* לטעימה
    [word |-> <<"כ","נ","ד","ר","ש">>, code |-> "as_needed"],  \* כנדרש
    [word |-> <<"ל","פ","י"," ","ה","צ","ו","ר","ך">>, code |-> "as_needed"]  \* לפי הצורך
    >>

HEBREW_FRACTION_MAP == <<
    [word |-> <<"ח","צ","י">>, value |-> [num |-> 1, den |-> 2]],  \* חצי
    [word |-> <<"ר","ב","ע">>, value |-> [num |-> 1, den |-> 4]],  \* רבע
    [word |-> <<"ש","ל","י","ש">>, value |-> [num |-> 333, den |-> 1000]],  \* שליש
    [word |-> <<"ש","נ","י"," ","ש","ל","י","ש">>, value |-> [num |-> 667, den |-> 1000]],  \* שני שליש
    [word |-> <<"ש","ל","ו","ש","ת"," ","ר","ב","ע","י">>, value |-> [num |-> 3, den |-> 4]],  \* שלושת רבעי
    [word |-> <<"ש","מ","י","נ","י","ת">>, value |-> [num |-> 1, den |-> 8]]  \* שמינית
    >>

HEBREW_NUMBER_MAP == <<
    [word |-> <<"א","ח","ד">>, value |-> [num |-> 1, den |-> 1]],  \* אחד
    [word |-> <<"א","ח","ת">>, value |-> [num |-> 1, den |-> 1]],  \* אחת
    [word |-> <<"ש","נ","י","י","ם">>, value |-> [num |-> 2, den |-> 1]],  \* שניים
    [word |-> <<"ש","ת","י","י","ם">>, value |-> [num |-> 2, den |-> 1]],  \* שתיים
    [word |-> <<"ש","ל","ו","ש">>, value |-> [num |-> 3, den |-> 1]],  \* שלוש
    [word |-> <<"ש","ל","ו","ש","ה">>, value |-> [num |-> 3, den |-> 1]],  \* שלושה
    [word |-> <<"א","ר","ב","ע">>, value |-> [num |-> 4, den |-> 1]],  \* ארבע
    [word |-> <<"א","ר","ב","ע","ה">>, value |-> [num |-> 4, den |-> 1]],  \* ארבעה
    [word |-> <<"ח","מ","ש">>, value |-> [num |-> 5, den |-> 1]],  \* חמש
    [word |-> <<"ח","מ","י","ש","ה">>, value |-> [num |-> 5, den |-> 1]],  \* חמישה
    [word |-> <<"ש","ש">>, value |-> [num |-> 6, den |-> 1]],  \* שש
    [word |-> <<"ש","י","ש","ה">>, value |-> [num |-> 6, den |-> 1]],  \* שישה
    [word |-> <<"ש","ב","ע">>, value |-> [num |-> 7, den |-> 1]],  \* שבע
    [word |-> <<"ש","ב","ע","ה">>, value |-> [num |-> 7, den |-> 1]],  \* שבעה
    [word |-> <<"ש","מ","ו","נ","ה">>, value |-> [num |-> 8, den |-> 1]],  \* שמונה
    [word |-> <<"ת","ש","ע">>, value |-> [num |-> 9, den |-> 1]],  \* תשע
    [word |-> <<"ת","ש","ע","ה">>, value |-> [num |-> 9, den |-> 1]],  \* תשעה
    [word |-> <<"ע","ש","ר">>, value |-> [num |-> 10, den |-> 1]],  \* עשר
    [word |-> <<"ע","ש","ר","ה">>, value |-> [num |-> 10, den |-> 1]]  \* עשרה
    >>

englishUnits == <<
    [word |-> <<"c","u","p">>, code |-> "cup"],  \* cup
    [word |-> <<"c","u","p","s">>, code |-> "cup"],  \* cups
    [word |-> <<"t","a","b","l","e","s","p","o","o","n">>, code |-> "tbsp"],  \* tablespoon
    [word |-> <<"t","a","b","l","e","s","p","o","o","n","s">>, code |-> "tbsp"],  \* tablespoons
    [word |-> <<"t","b","s","p">>, code |-> "tbsp"],  \* tbsp
    [word |-> <<"t","e","a","s","p","o","o","n">>, code |-> "tsp"],  \* teaspoon
    [word |-> <<"t","e","a","s","p","o","o","n","s">>, code |-> "tsp"],  \* teaspoons
    [word |-> <<"t","s","p">>, code |-> "tsp"],  \* tsp
    [word |-> <<"g","r","a","m">>, code |-> "g"],  \* gram
    [word |-> <<"g","r","a","m","s">>, code |-> "g"],  \* grams
    [word |-> <<"g">>, code |-> "g"],  \* g
    [word |-> <<"k","i","l","o","g","r","a","m">>, code |-> "kg"],  \* kilogram
    [word |-> <<"k","i","l","o","g","r","a","m","s">>, code |-> "kg"],  \* kilograms
    [word |-> <<"k","g">>, code |-> "kg"],  \* kg
    [word |-> <<"m","l">>, code |-> "ml"],  \* ml
    [word |-> <<"m","i","l","l","i","l","i","t","e","r">>, code |-> "ml"],  \* milliliter
    [word |-> <<"m","i","l","l","i","l","i","t","e","r","s">>, code |-> "ml"],  \* milliliters
    [word |-> <<"l","i","t","e","r">>, code |-> "l"],  \* liter
    [word |-> <<"l","i","t","e","r","s">>, code |-> "l"],  \* liters
    [word |-> <<"l">>, code |-> "l"],  \* l
    [word |-> <<"o","u","n","c","e">>, code |-> "oz"],  \* ounce
    [word |-> <<"o","u","n","c","e","s">>, code |-> "oz"],  \* ounces
    [word |-> <<"o","z">>, code |-> "oz"],  \* oz
    [word |-> <<"p","o","u","n","d">>, code |-> "lb"],  \* pound
    [word |-> <<"p","o","u","n","d","s">>, code |-> "lb"],  \* pounds
    [word |-> <<"l","b">>, code |-> "lb"],  \* lb
    [word |-> <<"l","b","s">>, code |-> "lb"],  \* lbs
    [word |-> <<"p","i","e","c","e">>, code |-> "piece"],  \* piece
    [word |-> <<"p","i","e","c","e","s">>, code |-> "piece"],  \* pieces
    [word |-> <<"s","l","i","c","e">>, code |-> "slice"],  \* slice
    [word |-> <<"s","l","i","c","e","s">>, code |-> "slice"],  \* slices
    [word |-> <<"c","l","o","v","e">>, code |-> "clove"],  \* clove
    [word |-> <<"c","l","o","v","e","s">>, code |-> "clove"],  \* cloves
    [word |-> <<"b","u","n","c","h">>, code |-> "bunch"],  \* bunch
    [word |-> <<"p","a","c","k","a","g","e">>, code |-> "package"],  \* package
    [word |-> <<"c","a","n">>, code |-> "can"],  \* can
    [word |-> <<"j","a","r">>, code |-> "jar"],  \* jar
    [word |-> <<"b","a","g">>, code |-> "bag"],  \* bag
    [word |-> <<"p","i","n","c","h">>, code |-> "pinch"],  \* pinch
    [word |-> <<"d","a","s","h">>, code |-> "dash"]  \* dash
    >>

\* the value of the first entry of a table, in insertion order, whose word
\* the text includes; none when no word is included
FirstIncluded(tbl, text) ==
    LET hits == { k \in 1..Len(tbl) : Includes(text, tbl[k].word) }
    IN  IF hits = {} THEN 0 ELSE SetMin(hits)

\* the decimal value of a run of digits
RECURSIVE parseInt(_)
parseInt(digits) ==
    IF digits = <<>> THEN 0
    ELSE 10 * parseInt(SubSeq(digits, 1, Len(digits) - 1))
         + DigitValue(digits[Len(digits)])

\* 10 to the power n
RECURSIVE Pow10(_)
Pow10(n) == IF n = 0 THEN 1 ELSE 10 * Pow10(n - 1)

\* the decimal digits of a natural number
RECURSIVE DigitsOf(_)
DigitsOf(n) ==
    IF n < 10 THEN <<DigitChars[n + 1]>>
    ELSE DigitsOf(n \div 10) \o <<DigitChars[(n % 10) + 1]>>

\* the length of the run of digits of s that starts at position i
DigitRun(s, i) ==
    SetMax({ n \in 0..(Len(s) - i + 1) :
                \A k \in i..(i + n - 1) : IsDigit(s[k]) })

\* the length of the run of white space of s that starts at position i
SpaceRun(s, i) ==
    SetMax({ n \in 0..(Len(s) - i + 1) :
                \A k \in i..(i + n - 1) : s[k] \in WhiteSpace })

\* parseFloat on a trimmed text without sign and exponent: the longest
\* prefix digits [. digits] with at least one digit; NoQuantity for NaN
parseFloat(s) ==
    LET a == DigitRun(s, 1)
        dot == a + 1 <= Len(s) /\ s[a + 1] = "."
        b == IF dot THEN DigitRun(s, a + 2) ELSE 0
    IN  IF a + b = 0 THEN NoQuantity
        ELSE Number(parseInt(SubSeq(s, 1, a)) * Pow10(b)
                       + parseInt(SubSeq(s, a + 2, a + 1 + b)),
                    Pow10(b))

\* /(\d+)\s*\/\s*(\d+)/ tried at position i: <<numerator, denominator>> as
\* digit runs, or <<>> when it does not match there
FractionAt(s, i) ==
    LET a == DigitRun(s, i)
        slash == i + a + SpaceRun(s, i + a)
        second == slash + 1 + SpaceRun(s, slash + 1)
        b == DigitRun(s, second)
    IN  IF a > 0 /\ slash <= Len(s) /\ s[slash] = "/" /\ b > 0
        THEN <<SubSeq(s, i, i + a - 1), SubSeq(s, second, second + b - 1)>>
        ELSE <<>>

\* parseHebrewNumber.  The pattern for mixed numbers contains the pattern
\* for fractions, so it cannot match where that one did not.
parseHebrewNumber(text) ==
    LET trimmed == toLowerCase(trim(text))
        fraction == FirstIncluded(HEBREW_FRACTION_MAP, trimmed)
        words == { k \in 1..Len(HEBREW_NUMBER_MAP) :
                      HEBREW_NUMBER_MAP[k].word = trimmed }
        starts == { i \in 1..Len(trimmed) : FractionAt(trimmed, i) # <<>> }
    IN  IF fraction # 0 THEN HEBREW_FRACTION_MAP[fraction].value
        ELSE IF words # {} THEN HEBREW_NUMBER_MAP[SetMin(words)].value
        ELSE IF parseFloat(trimmed) # NoQuantity THEN parseFloat(trimmed)
        ELSE IF starts # {}
        THEN LET m == FractionAt(trimmed, SetMin(starts))
             IN  Number(parseInt(m[1]), parseInt(m[2]))
        ELSE NoQuantity

\* parseUnit
parseUnit(text) ==
    LET trimmed == toLowerCase(trim(text))
        hebrew == FirstIncluded(HEBREW_UNIT_MAP, trimmed)
        english == FirstIncluded(englishUnits, trimmed)
    IN  IF hebrew # 0 THEN HEBREW_UNIT_MAP[hebrew].code
        ELSE IF english # 0 THEN englishUnits[english].code
        ELSE NoUnit

\* original.match(/\(([^)]+)\)/): the positions of the two parentheses of
\* the leftmost match, <<0, 0>> when there is none
commentMatch(s) ==
    LET closes(i) == { j \in (i + 1)..Len(s) : s[j] = ")" }
        opens == { i \in 1..Len(s) :
                      /\ s[i] = "("
                      /\ closes(i) # {}
                      /\ SetMin(closes(i)) > i + 1 }
    IN  IF opens = {} THEN <<0, 0>>
        ELSE <<SetMin(opens), SetMin(closes(SetMin(opens)))>>

\* item.match(/^([\d\s/.]+)/): the length of the match, 0 when there is none
numMatch(s) ==
    SetMax({ n \in 0..Len(s) :
                \A k \in 1..n : \/ IsDigit(s[k])
                                \/ s[k] \in WhiteSpace
                                \/ s[k] \in {"/", "."} })

\* new RegExp(`\\b${unitWord}s?\\b`, 'gi') tried at position i: the length
\* of the match, 0 when it does not match there
UnitWordAt(s, unitWord, i) ==
    LET e == i + Len(unitWord) - 1
        boundaryAfter(k) == k = Len(s) \/ ~IsWordChar(s[k + 1])
    IN  IF /\ e <= Len(s)
           /\ toLowerCase(SubSeq(s, i, e)) = unitWord
           /\ (i = 1 \/ ~IsWordChar(s[i - 1]))
        THEN IF e + 1 <= Len(s) /\ s[e + 1] \in {"s", "S"}
                /\ boundaryAfter(e + 1)
             THEN Len(unitWord) + 1
             ELSE IF boundaryAfter(e) THEN Len(unitWord) ELSE 0
        ELSE 0

\* item.replace(regex, '') from position i on: every match is removed
RECURSIVE removeUnitWord(_, _, _)
removeUnitWord(s, unitWord, i) ==
    IF i > Len(s) THEN <<>>
    ELSE IF UnitWordAt(s, unitWord, i) > 0
    THEN removeUnitWord(s, unitWord, i + UnitWordAt(s, unitWord, i))
    ELSE <<s[i]>> \o removeUnitWord(s, unitWord, i + 1)

\* the loop over englishUnits from entry k on; s is trimmed when the loop
\* starts, and a word that s does not include leaves it as it is
RECURSIVE removeEnglishUnits(_, _)
removeEnglishUnits(s, k) ==
    IF k > Len(englishUnits) THEN s
    ELSE IF ~Includes(toLowerCase(s), englishUnits[k].word)
    THEN removeEnglishUnits(s, k + 1)
    ELSE removeEnglishUnits(trim(removeUnitWord(s, englishUnits[k].word, 1)),
                            k + 1)

\* parseIngredient: the removal of the unit from the item
removeUnit(item) ==
    LET hebrew == FirstIncluded(HEBREW_UNIT_MAP, item)
    IN  removeEnglishUnits(
            IF hebrew # 0 THEN trim(remove(item, HEBREW_UNIT_MAP[hebrew].word))
            ELSE item,
            1)

shel == <<"ש","ל">>  \* של
\* the hyphen, the en dash (U+2013) and the em dash (U+2014)
Dashes == {"-", "U+2013", "U+2014"}

\* .replace(/^(של|of)\s+/i, '')
removeOf(s) ==
    LET word == IF SubSeq(s, 1, 2) = shel
                   \/ toLowerCase(SubSeq(s, 1, 2)) = <<"o", "f">>
                THEN 2 ELSE 0
    IN  IF Len(s) >= 2 /\ word = 2 /\ SpaceRun(s, 3) > 0
        THEN SubSeq(s, 3 + SpaceRun(s, 3), Len(s))
        ELSE s

\* .replace(/^\s*[-–—]\s*/, '')
removeDash(s) ==
    LET dash == 1 + SpaceRun(s, 1)
    IN  IF dash <= Len(s) /\ s[dash] \in Dashes
        THEN SubSeq(s, dash + 1 + SpaceRun(s, dash + 1), Len(s))
        ELSE s

\* .replace(/\s+/g, ' ')
RECURSIVE collapseSpaces(_, _)
collapseSpaces(s, i) ==
    IF i > Len(s) THEN <<>>
    ELSE IF s[i] \in WhiteSpace
    THEN <<" ">> \o collapseSpaces(s, i + SpaceRun(s, i))
    ELSE <<s[i]>> \o collapseSpaces(s, i + 1)

\* parseIngredient: the clean-up of the item name
cleanItem(item) == trim(collapseSpaces(removeDash(removeOf(item)), 1))

parseIngredient(str) ==
    LET original == trim(str)
        match == commentMatch(original)
        comments == IF match = <<0, 0>> THEN NoComments
                    ELSE SubSeq(original, match[1] + 1, match[2] - 1)
        item1 == IF match = <<0, 0>> THEN original
                 ELSE trim(SubSeq(original, 1, match[1] - 1)
                           \o SubSeq(original, match[2] + 1, Len(original)))
        fraction == FirstIncluded(HEBREW_FRACTION_MAP, item1)
        item2 == IF fraction # 0
                 THEN trim(remove(item1, HEBREW_FRACTION_MAP[fraction].word))
                 ELSE item1
        numeric == IF fraction = 0 /\ numMatch(item2) > 0
                   THEN parseHebrewNumber(SubSeq(item2, 1, numMatch(item2)))
                   ELSE NoQuantity
        quantity == IF fraction # 0 THEN HEBREW_FRACTION_MAP[fraction].value
                    ELSE numeric
        item3 == IF fraction = 0 /\ numeric # NoQuantity
                 THEN trim(SubSeq(item2, numMatch(item2) + 1, Len(item2)))
                 ELSE item2
        unit == parseUnit(item3)
        item4 == IF unit # NoUnit THEN removeUnit(item3) ELSE item3
        item == cleanItem(item4)
    IN  [original |-> original,
         item |-> IF item # <<>> THEN item ELSE original,
         quantity |-> quantity,
         unit |-> unit,
         comments |-> comments]

flour == <<"ק","מ","ח">>  \* קמח
sugar == <<"ס","ו","כ","ר">>  \* סוכר
salt == <<"מ","ל","ח">>  \* מלח
eggs == <<"e","g","g","s">>
warm == <<"ח","ם">>  \* חם

\* the numerals 1..MaxNumeral and the 500 of the test script
Numerals == { <<DigitChars[n + 1]>> : n \in 1..MaxNumeral } \cup {<<"5","0","0">>}
NumeralValue(numeral) == Number(parseInt(numeral), 1)

HebrewUnitWords == { HEBREW_UNIT_MAP[k].word : k \in 1..Len(HEBREW_UNIT_MAP) }
FractionWords ==
    { HEBREW_FRACTION_MAP[k].word : k \in 1..Len(HEBREW_FRACTION_MAP) }

\* what a line may start with, name as its unit, and name as its item
LineQuantities ==
    Numerals \cup FractionWords
    \cup { <<>>, <<"1","/","2">>, <<"1"," ","1","/","2">>, <<"1",".","5">> }
LineUnits ==
    HebrewUnitWords
    \cup { <<>>, <<"c","u","p">>, <<"c","u","p","s">>, <<"T","b","s","p">> }
LineItems == {flour, sugar, salt, eggs}
LineComments == { <<>>, <<"(">> \o warm \o <<")">> }

\* the parts of a line, separated by single spaces
RECURSIVE JoinWords(_)
JoinWords(parts) ==
    IF parts = <<>> THEN <<>>
    ELSE IF Head(parts) = <<>> THEN JoinWords(Tail(parts))
    ELSE IF JoinWords(Tail(parts)) = <<>> THEN Head(parts)
    ELSE Head(parts) \o <<" ">> \o JoinWords(Tail(parts))

\* English lines of the test script, and a line that names two containers
EnglishLines == {
    <<"2"," ","c","u","p","s"," ","a","l","l","-","p","u","r","p","o","s","e"," ","f","l","o","u","r">>,  \* 2 cups all-purpose flour
    <<"1","/","2"," ","c","u","p"," ","b","u","t","t","e","r",","," ","s","o","f","t","e","n","e","d">>,  \* 1/2 cup butter, softened
    <<"3"," ","t","a","b","l","e","s","p","o","o","n","s"," ","o","l","i","v","e"," ","o","i","l">>,  \* 3 tablespoons olive oil
    <<"1"," ","t","s","p"," ","v","a","n","i","l","l","a"," ","e","x","t","r","a","c","t">>,  \* 1 tsp vanilla extract
    <<"p","i","n","c","h"," ","o","f"," ","s","a","l","t">>,  \* pinch of salt
    <<"2"," ","c","l","o","v","e","s"," ","g","a","r","l","i","c",","," ","m","i","n","c","e","d">>,  \* 2 cloves garlic, minced
    <<"1"," ","c","a","n"," ","t","o","m","a","t","o"," ","s","l","i","c","e","s">>  \* 1 can tomato slices
    }

Lines ==
    { JoinWords(<<q, u, i, c>>) :
        q \in LineQuantities, u \in LineUnits, i \in LineItems,
        c \in LineComments }
    \cup EnglishLines

\* parseRecipeFromHtml: (jsonLd.recipeIngredient || []).map(parseIngredient)
ParseIngredient ==
    /\ ingredient = Null
    /\ ingredient' = parseIngredient(ingredientStr)
    /\ UNCHANGED ingredientStr
    /\ UNCHANGED outsideIngredient

IngredientInit ==
    /\ PipelineIdle
    /\ FetcherIdle
    /\ JsonLdIdle
    /\ FieldsIdle
    /\ SyncIdle
    /\ SessionsIdle
    /\ SaveIdle
    /\ ingredientStr \in Lines
    /\ ingredient = Null

IngredientNext == ParseIngredient

SpecIngredient == IngredientInit /\ [][IngredientNext]_vars

----------------------------------------------------------------------------
(* The normalizers parseRecipeFromHtml applies to the properties of the   *)
(* recipe: parseDuration, extractImage, extractAuthor, extractInstructions *)

\* largest number of hours, minutes or seconds tried, besides the numbers
\* around half a minute
MaxDurationNumber == 2
\* largest number of elements of an image or author list
MaxElements == 2
\* largest number of instruction steps
MaxSteps == 2

undefined == <<"undefined">>
\* null as a number of minutes, and as a string
NoMinutes == -1
NoText == "null"

\* Math.round(a / b) for a >= 0, b > 0: the floor of a / b + 1/2
round_down(a, b) == a \div b
round(a, b) == (2 * a + b) \div (2 * b)

\* (?:(\d+)X)? of the duration pattern tried at position i, with the i flag:
\* the length of the digits, 0 when the group does not take part
DurationGroup(s, i, letter) ==
    LET d == DigitRun(s, i)
    IN  IF d > 0 /\ i + d <= Len(s) /\ toLowerCase(<<s[i + d]>>) = <<letter>>
        THEN d ELSE 0

\* parseDuration
parseDuration(duration) ==
    IF duration = undefined \/ duration = <<>> THEN NoMinutes
    ELSE
      LET starts == { i \in 1..(Len(duration) - 1) :
                         toLowerCase(SubSeq(duration, i, i + 1)) = <<"p", "t">> }
      IN  IF starts = {} THEN NoMinutes
          ELSE
            LET atH == SetMin(starts) + 2
                h == DurationGroup(duration, atH, "h")
                atM == IF h > 0 THEN atH + h + 1 ELSE atH
                m == DurationGroup(duration, atM, "m")
                atS == IF m > 0 THEN atM + m + 1 ELSE atM
                sec == DurationGroup(duration, atS, "s")
                hours == parseInt(SubSeq(duration, atH, atH + h - 1))
                minutes == parseInt(SubSeq(duration, atM, atM + m - 1))
                seconds == parseInt(SubSeq(duration, atS, atS + sec - 1))
            IN  hours * 60 + minutes + round(seconds, 60)

\* a value of the image or author property: a string, an object that has
\* the key the normalizer reads (url, name) or not, or an array of these
Texts == {"", "a", "b"}
Scalars ==
    [kind : {"string"}, keyed : {FALSE}, text : Texts, items : {<<>>}]
    \cup [kind : {"object"}, keyed : {TRUE}, text : Texts, items : {<<>>}]
    \cup [kind : {"object"}, keyed : {FALSE}, text : {""}, items : {<<>>}]
Undefined == [kind |-> "undefined", keyed |-> FALSE, text |-> "", items |-> <<>>]
ArrayOf(items) == [kind |-> "array", keyed |-> FALSE, text |-> "", items |-> items]
PropertyValues ==
    {Undefined} \cup Scalars
    \cup { ArrayOf(items) : items \in SeqsUpTo(Scalars, MaxElements) }

\* !value: undefined and the empty string
Falsy(value) ==
    \/ value.kind = "undefined"
    \/ value.kind = "string" /\ value.text = ""

\* image[0] / author[0]
First(value) == IF value.items = <<>> THEN Undefined ELSE value.items[1]

\* extractImage
extractImage(image) ==
    IF Falsy(image) THEN NoText
    ELSE IF image.kind = "string" THEN image.text
    ELSE IF image.kind = "array" /\ First(image).kind = "string"
    THEN First(image).text
    ELSE IF image.kind = "array" /\ ~Falsy(First(image))
            /\ First(image).kind = "object" /\ First(image).keyed
    THEN First(image).text
    ELSE NoText

\* extractAuthor
extractAuthor(author) ==
    IF Falsy(author) THEN NoText
    ELSE IF author.kind = "string" THEN author.text
    ELSE IF author.kind = "object" /\ author.keyed THEN author.text
    ELSE IF author.kind = "array" /\ First(author).kind = "string"
    THEN First(author).text
    ELSE IF author.kind = "array" /\ ~Falsy(First(author))
            /\ First(author).kind = "object" /\ First(author).keyed
    THEN First(author).text
    ELSE NoText

\* \s of a regular expression on the characters of an instruction string
JsSpace == WhiteSpace \cup {"\n"}

\* (?=\d+\.\s) at position q
OrdinalAhead(s, q) ==
    LET d == DigitRun(s, q)
    IN  d > 0 /\ q + d + 1 <= Len(s) /\ s[q + d] = "." /\ s[q + d + 1] \in JsSpace

\* instructions.split(/\n|(?=\d+\.\s)/): a piece starts at the start of the
\* string, after a newline, and where the lookahead matches; the newline is
\* not part of a piece.  Empty pieces are left out, as the filter does later.
PieceStarts(s) ==
    { q \in 1..Len(s) : q = 1 \/ s[q - 1] = "\n" \/ OrdinalAhead(s, q) }
PieceFrom(s, q) ==
    LET later == { r \in PieceStarts(s) : r > q }
        end == IF later = {} THEN Len(s) ELSE SetMin(later) - 1
    IN  IF end >= q /\ s[end] = "\n" THEN SubSeq(s, q, end - 1)
        ELSE SubSeq(s, q, end)
RECURSIVE PiecesFrom(_, _)
PiecesFrom(s, q) ==
    IF q > Len(s) THEN <<>>
    ELSE IF q \notin PieceStarts(s) THEN PiecesFrom(s, q + 1)
    ELSE <<PieceFrom(s, q)>> \o PiecesFrom(s, q + 1)

\* s.replace(/^\d+\.\s*/, '').trim()
stripOrdinal(s) ==
    LET d == DigitRun(s, 1)
    IN  IF d > 0 /\ d + 1 <= Len(s) /\ s[d + 1] = "."
        THEN trim(SubSeq(s, d + 2, Len(s)))
        ELSE trim(s)

\* .filter(s => s.length > 0)
nonEmpty(steps) == SelectSeq(steps, LAMBDA step : Len(step) > 0)

\* an element of an instructions array: a string, a step object with a
\* text, a section object with an itemListElement array, or an array
TextItem(kind, text) == [kind |-> kind, text |-> text, items |-> <<>>]
ListItem(kind, items) == [kind |-> kind, text |-> <<>>, items |-> items]

\* the steps one element of the array pushes
RECURSIVE subSteps(_)
subSteps(items) ==
    IF items = <<>> THEN <<>>
    ELSE (IF Head(items).kind = "step" THEN <<trim(Head(items).text)>>
          ELSE <<>>)
         \o subSteps(Tail(items))
itemSteps(item) ==
    IF item.kind \in {"string", "step"} THEN <<trim(item.text)>>
    ELSE IF item.kind = "section" THEN subSteps(item.items)
    ELSE <<>>
RECURSIVE arraySteps(_)
arraySteps(items) ==
    IF items = <<>> THEN <<>>
    ELSE itemSteps(Head(items)) \o arraySteps(Tail(items))

\* extractInstructions
extractInstructions(instructions) ==
    IF instructions.kind = "string"
    THEN nonEmpty([k \in 1..Len(PiecesFrom(instructions.text, 1)) |->
                      stripOrdinal(PiecesFrom(instructions.text, 1)[k])])
    ELSE IF instructions.kind = "array"
    THEN nonEmpty(arraySteps(instructions.items))
    ELSE <<>>

\* the durations PT#H#M#S with any of the three parts absent (-1)
DurationNumbers == (0..MaxDurationNumber) \cup {29, 30, 31, 90}
DurationPart(n, letter) == IF n = -1 THEN <<>> ELSE DigitsOf(n) \o <<letter>>
DurationText(h, m, sec) ==
    <<"P", "T">> \o DurationPart(h, "H") \o DurationPart(m, "M")
    \o DurationPart(sec, "S")
Durations ==
    { DurationText(h, m, sec) : h, m, sec \in DurationNumbers \cup {-1} }
    \cup { undefined, <<>>, <<"P","1","D">>, <<"p","t","1","h">> }

\* instruction texts
mix == <<"M","i","x">>
bake == <<"B","a","k","e">>
StepWords == {mix, bake}
\* a newline-delimited string of steps, numbered from first on or not (0)
RECURSIVE InstructionText(_, _)
InstructionText(steps, first) ==
    IF steps = <<>> THEN <<>>
    ELSE (IF first = 0 THEN <<>> ELSE DigitsOf(first) \o <<".", " ">>)
         \o Head(steps)
         \o (IF Len(steps) = 1 THEN <<>> ELSE <<"\n">>)
         \o InstructionText(Tail(steps), IF first = 0 THEN 0 ELSE first + 1)
FirstOrdinals == {0, 1, 9}
InstructionStrings ==
    { [kind |-> "string",
       text |-> InstructionText(steps, first), items |-> <<>>] :
        steps \in SeqsUpTo(StepWords, MaxSteps), first \in FirstOrdinals }
InstructionItems ==
    { TextItem("string", text) : text \in {mix, <<" ">> \o bake \o <<" ">>, <<>>} }
    \cup { TextItem("step", text) : text \in StepWords }
    \cup { ListItem("section", items) :
             items \in { <<TextItem("step", mix), TextItem("step", bake)>>,
                         <<TextItem("string", mix)>>, <<>> } }
    \cup { ListItem("array", <<TextItem("string", mix), TextItem("string", bake)>>) }
Instructions ==
    InstructionStrings
    \cup { ListItem("array", items) : items \in SeqsUpTo(InstructionItems, MaxSteps) }
    \cup { ListItem("undefined", <<>>) }

Normalized(value) == [done |-> TRUE, value |-> value]

\* parseRecipeFromHtml: prepTime / cookTime / totalTime
ParseDuration ==
    /\ field.kind = "duration" /\ ~extracted.done
    /\ extracted' = Normalized(parseDuration(field.value))
    /\ UNCHANGED field
    /\ UNCHANGED outsideFields

\* parseRecipeFromHtml: imageUrl
ExtractImage ==
    /\ field.kind = "image" /\ ~extracted.done
    /\ extracted' = Normalized(extractImage(field.value))
    /\ UNCHANGED field
    /\ UNCHANGED outsideFields

\* parseRecipeFromHtml: author
ExtractAuthor ==
    /\ field.kind = "author" /\ ~extracted.done
    /\ extracted' = Normalized(extractAuthor(field.value))
    /\ UNCHANGED field
    /\ UNCHANGED outsideFields

\* parseRecipeFromHtml: steps
ExtractInstructions ==
    /\ field.kind = "recipeInstructions" /\ ~extracted.done
    /\ extracted' = Normalized(extractInstructions(field.value))
    /\ UNCHANGED field
    /\ UNCHANGED outsideFields

FieldsInit ==
    /\ PipelineIdle
    /\ FetcherIdle
    /\ JsonLdIdle
    /\ IngredientIdle
    /\ SyncIdle
    /\ SessionsIdle
    /\ SaveIdle
    /\ field \in [kind : {"duration"}, value : Durations]
                 \cup [kind : {"image", "author"}, value : PropertyValues]
                 \cup [kind : {"recipeInstructions"}, value : Instructions]
    /\ extracted = [done |-> FALSE, value |-> <<>>]

FieldsNext ==
    \/ ParseDuration
    \/ ExtractImage
    \/ ExtractAuthor
    \/ ExtractInstructions

SpecFields == FieldsInit /\ [][FieldsNext]_vars

----------------------------------------------------------------------------
(* createDebouncedSync: schedule, flush, cancel, the timer callback and the *)
(* completion of syncToDatabase, in any interleaving.  The k-th call of     *)
(* schedule passes state k and sets timer k.                                *)

\* number of schedule calls
MaxScheduled == 3
\* number of flush calls whose syncToDatabase is in flight at a time
MaxInFlight == 2

\* clearTimeout(timeoutId) when timeoutId is not null
Cleared == IF timeoutId # 0 THEN armed \ {timeoutId} ELSE armed

\* schedule(state)
Schedule ==
    /\ scheduled < MaxScheduled
    /\ scheduled' = scheduled + 1
    /\ pendingState' = scheduled + 1
    /\ armed' = Cleared \cup {scheduled + 1}
    /\ timeoutId' = scheduled + 1
    /\ UNCHANGED <<sent, syncing, cancelledAt>>
    /\ UNCHANGED outsideSync

\* the timer callback, up to its await or, without a pending state, whole
TimerExpiry(id) ==
    /\ id \in armed
    /\ armed' = armed \ {id}
    /\ IF pendingState # 0
       THEN /\ sent' = sent \cup {pendingState}
            /\ syncing' = [syncing EXCEPT !.timer = @ + 1]
            /\ UNCHANGED timeoutId
       ELSE /\ timeoutId' = 0
            /\ UNCHANGED <<sent, syncing>>
    /\ UNCHANGED <<pendingState, scheduled, cancelledAt>>
    /\ UNCHANGED outsideSync

\* the timer callback after its await: syncToDatabase has returned
TimerSyncDone ==
    /\ syncing.timer > 0
    /\ syncing' = [syncing EXCEPT !.timer = @ - 1]
    /\ pendingState' = 0
    /\ timeoutId' = 0
    /\ UNCHANGED <<armed, scheduled, sent, cancelledAt>>
    /\ UNCHANGED outsideSync

\* flush(), up to its await or, without a pending state, whole
Flush ==
    /\ armed' = Cleared
    /\ timeoutId' = 0
    /\ IF pendingState # 0
       THEN /\ syncing.flush < MaxInFlight
            /\ sent' = sent \cup {pendingState}
            /\ syncing' = [syncing EXCEPT !.flush = @ + 1]
       ELSE UNCHANGED <<sent, syncing>>
    /\ UNCHANGED <<pendingState, scheduled, cancelledAt>>
    /\ UNCHANGED outsideSync

\* flush() after its await: syncToDatabase has returned
FlushSyncDone ==
    /\ syncing.flush > 0
    /\ syncing' = [syncing EXCEPT !.flush = @ - 1]
    /\ pendingState' = 0
    /\ UNCHANGED <<timeoutId, armed, scheduled, sent, cancelledAt>>
    /\ UNCHANGED outsideSync

\* cancel()
Cancel ==
    /\ armed' = Cleared
    /\ timeoutId' = 0
    /\ pendingState' = 0
    /\ cancelledAt' = scheduled
    /\ UNCHANGED <<scheduled, sent, syncing>>
    /\ UNCHANGED outsideSync

SyncInit ==
    /\ PipelineIdle
    /\ FetcherIdle
    /\ JsonLdIdle
    /\ IngredientIdle
    /\ FieldsIdle
    /\ SyncIdle
    /\ SessionsIdle
    /\ SaveIdle

SyncNext ==
    \/ Schedule
    \/ \E id \in 1..MaxScheduled : TimerExpiry(id)
    \/ TimerSyncDone
    \/ Flush
    \/ FlushSyncDone
    \/ Cancel

SpecSync == SyncInit /\ [][SyncNext]_vars

\* a timer that is set fires, and a syncToDatabase call returns: it catches
\* every error of its requests
SyncFairness ==
    /\ \A id \in 1..MaxScheduled : WF_vars(TimerExpiry(id))
    /\ WF_vars(TimerSyncDone)
    /\ WF_vars(FlushSyncDone)

SpecSyncFair == SpecSync /\ SyncFairness

----------------------------------------------------------------------------
(* The cooking sessions: the routes /api/cooking-sessions and               *)
(* /api/cooking-sessions/[id] on the table cooking_sessions, and the        *)
(* cooking page that resumes a session or starts a new one.  A route        *)
(* handler runs its synchronous statements in one step.                     *)

\* number of rows ever inserted
MaxSessions == 3
\* the recipes, and the cooking pages that are opened
Recipes == {1, 2}
CookingPages == {1}

\* a page that is not open; existingSession and activeSessionId are 0 for
\* null
ClosedPage ==
    [open |-> FALSE, recipe |-> 0, checking |-> FALSE, creating |-> 0,
     existingSession |-> 0, showResumeDialog |-> FALSE, activeSessionId |-> 0]

\* move or add id to the end of the order of last_active_time
Touched(id) == SelectSeq(recent, LAMBDA other : other # id) \o <<id>>

\* createCookingSession: status is 'active' by default
createCookingSession(recipeId) ==
    /\ Len(sessions) < MaxSessions
    /\ sessions' = Append(sessions, [recipe |-> recipeId, status |-> "active"])
    /\ recent' = Touched(Len(sessions) + 1)

\* getActiveSessionForRecipe: the id of the active row of the recipe that
\* was active last, 0 for null
getActiveSessionForRecipe(recipeId) ==
    LET active == { k \in 1..Len(recent) :
                       /\ sessions[recent[k]].recipe = recipeId
                       /\ sessions[recent[k]].status = "active" }
    IN  IF active = {} THEN 0 ELSE recent[SetMax(active)]

Exists(id) == id \in 1..Len(sessions) /\ sessions[id].status # "deleted"

\* completeCookingSession / abandonCookingSession: UPDATE ... WHERE id = ?
setStatus(id, status) ==
    IF Exists(id)
    THEN /\ sessions' = [sessions EXCEPT ![id].status = status]
         /\ recent' = Touched(id)
    ELSE UNCHANGED <<sessions, recent>>

\* POST /api/cooking-sessions
PostSession(recipeId, action) ==
    IF action = "resume" /\ getActiveSessionForRecipe(recipeId) # 0
    THEN UNCHANGED <<sessions, recent>>
    ELSE createCookingSession(recipeId)

\* a client posts to /api/cooking-sessions
ApiPost ==
    /\ \E recipeId \in Recipes, action \in {"start", "resume"} :
          PostSession(recipeId, action)
    /\ UNCHANGED cookingPage
    /\ UNCHANGED outsideSessions

\* PATCH /api/cooking-sessions/[id]: complete, abandon, or a progress update
ApiPatch ==
    /\ \E id \in 1..MaxSessions, action \in {"complete", "abandon", "update"} :
          /\ Exists(id)
          /\ IF action = "complete" THEN setStatus(id, "completed")
             ELSE IF action = "abandon" THEN setStatus(id, "abandoned")
             ELSE /\ recent' = Touched(id)
                  /\ UNCHANGED sessions
    /\ UNCHANGED cookingPage
    /\ UNCHANGED outsideSessions

\* DELETE /api/cooking-sessions/[id]
ApiDelete ==
    /\ \E id \in 1..MaxSessions :
          /\ Exists(id)
          /\ sessions' = [sessions EXCEPT ![id].status = "deleted"]
          /\ recent' = SelectSeq(recent, LAMBDA other : other # id)
    /\ UNCHANGED cookingPage
    /\ UNCHANGED outsideSessions

\* the effect 'create session after cooking data loads if no session yet'
\* runs createNewSession once more
EffectCreates(p) ==
    IF p.activeSessionId = 0 /\ p.existingSession = 0 /\ ~p.showResumeDialog
    THEN 1 ELSE 0

\* the cooking page of a recipe, opened without a session in its URL, has
\* loaded its cooking data: both effects run, one asks for the active
\* session and the other calls createNewSession
OpenPage(p) ==
    /\ ~cookingPage[p].open
    /\ \E recipeId \in Recipes :
          cookingPage' = [cookingPage EXCEPT ![p] =
                     [ClosedPage EXCEPT !.open = TRUE, !.recipe = recipeId,
                                        !.checking = TRUE,
                                        !.creating = EffectCreates(ClosedPage)]]
    /\ UNCHANGED <<sessions, recent>>
    /\ UNCHANGED outsideSessions

\* checkExistingSession: GET /api/cooking-sessions?recipeId= and its answer
CheckExistingSession(p) ==
    /\ cookingPage[p].open /\ cookingPage[p].checking
    /\ LET session == getActiveSessionForRecipe(cookingPage[p].recipe)
       IN  cookingPage' = [cookingPage EXCEPT ![p] =
                      IF session # 0
                      THEN [@ EXCEPT !.checking = FALSE,
                                     !.existingSession = session,
                                     !.showResumeDialog = TRUE]
                      ELSE [@ EXCEPT !.checking = FALSE]]
    /\ UNCHANGED <<sessions, recent>>
    /\ UNCHANGED outsideSessions

\* createNewSession: POST with action 'start' and its answer
CreateNewSession(p) ==
    /\ cookingPage[p].open /\ cookingPage[p].creating > 0
    /\ PostSession(cookingPage[p].recipe, "start")
    /\ cookingPage' = [cookingPage EXCEPT ![p].creating = @ - 1,
                            ![p].activeSessionId = Len(sessions) + 1]
    /\ UNCHANGED outsideSessions

\* handleResume
HandleResume(p) ==
    /\ cookingPage[p].open /\ cookingPage[p].showResumeDialog
    /\ cookingPage' = [cookingPage EXCEPT ![p].activeSessionId = cookingPage[p].existingSession,
                            ![p].showResumeDialog = FALSE,
                            ![p].existingSession = 0]
    /\ UNCHANGED <<sessions, recent>>
    /\ UNCHANGED outsideSessions

\* handleStartFresh: the existing session is abandoned, then createNewSession
\* is called; the effect may call it too
HandleStartFresh(p) ==
    /\ cookingPage[p].open /\ cookingPage[p].showResumeDialog
    /\ setStatus(cookingPage[p].existingSession, "abandoned")
    /\ LET closed == [cookingPage[p] EXCEPT !.showResumeDialog = FALSE,
                                     !.existingSession = 0]
       IN  cookingPage' = [cookingPage EXCEPT ![p] =
                      [closed EXCEPT !.creating = @ + 1 + EffectCreates(closed)]]
    /\ UNCHANGED outsideSessions

\* onClose of the resume dialog: createNewSession without abandoning
CloseDialog(p) ==
    /\ cookingPage[p].open /\ cookingPage[p].showResumeDialog
    /\ LET closed == [cookingPage[p] EXCEPT !.showResumeDialog = FALSE,
                                     !.existingSession = 0]
       IN  cookingPage' = [cookingPage EXCEPT ![p] =
                      [closed EXCEPT !.creating = @ + 1 + EffectCreates(closed)]]
    /\ UNCHANGED <<sessions, recent>>
    /\ UNCHANGED outsideSessions

SessionsInit ==
    /\ PipelineIdle
    /\ FetcherIdle
    /\ JsonLdIdle
    /\ IngredientIdle
    /\ FieldsIdle
    /\ SyncIdle
    /\ SaveIdle
    /\ sessions = <<>>
    /\ recent = <<>>
    /\ cookingPage = [p \in CookingPages |-> ClosedPage]

SessionsNext ==
    \/ ApiPost
    \/ ApiPatch
    \/ ApiDelete
    \/ \E p \in CookingPages : OpenPage(p)
    \/ \E p \in CookingPages : CheckExistingSession(p)
    \/ \E p \in CookingPages : CreateNewSession(p)
    \/ \E p \in CookingPages : HandleResume(p)
    \/ \E p \in CookingPages : HandleStartFresh(p)
    \/ \E p \in CookingPages : CloseDialog(p)

SpecSessions == SessionsInit /\ [][SessionsNext]_vars

----------------------------------------------------------------------------
(* Concurrent requests POST /api/extract of one authenticated user for one *)
(* URL, and the rows of recipe_recipes for that user and URL.  Every await *)
(* of the route and of saveRecipe is a step.                               *)

NumRequests == 2

Requests == 1..NumRequests

NoAnswer == [success |-> FALSE, recipe |-> FALSE, saved |-> FALSE,
             fromCache |-> FALSE]
NewRequest == [pc |-> "idle", forceRefresh |-> FALSE, extraction |-> FALSE,
               rejected |-> FALSE, answer |-> NoAnswer]

\* .single(): the row when there is exactly one
Single == rows = 1

Answered(r, answer) ==
    request' = [request EXCEPT ![r].pc = "done", ![r].answer = answer]

\* POST: the request arrives with a valid url; getUser returns the user
Receive(r) ==
    /\ request[r].pc = "idle"
    /\ \E forceRefresh \in BOOLEAN :
          request' = [request EXCEPT
                        ![r].forceRefresh = forceRefresh,
                        ![r].pc = IF forceRefresh THEN "extract" ELSE "cache"]
    /\ UNCHANGED rows
    /\ UNCHANGED outsideSave

\* POST: getRecipeByUrl; a cached recipe is the answer, and a failed lookup
\* is logged
CacheLookup(r) ==
    /\ request[r].pc = "cache"
    /\ \/ /\ Single
          /\ Answered(r, [success |-> TRUE, recipe |-> TRUE, saved |-> TRUE,
                          fromCache |-> TRUE])
       \/ /\ ~Single
          /\ request' = [request EXCEPT ![r].pc = "extract"]
       \/ request' = [request EXCEPT ![r].pc = "extract"]
    /\ UNCHANGED rows
    /\ UNCHANGED outsideSave

\* POST: extractRecipe, which succeeds with a recipe or fails
ExtractRequest(r) ==
    /\ request[r].pc = "extract"
    /\ \/ request' = [request EXCEPT ![r].pc = "select", ![r].extraction = TRUE]
       \/ Answered(r, NoAnswer)
    /\ UNCHANGED rows
    /\ UNCHANGED outsideSave

\* saveRecipe: the select of an existing row; its error is not looked at
SaveSelect(r) ==
    /\ request[r].pc = "select"
    /\ \/ request' = [request EXCEPT ![r].pc = IF Single THEN "update" ELSE "insert"]
       \/ request' = [request EXCEPT ![r].pc = "insert"]
    /\ UNCHANGED rows
    /\ UNCHANGED outsideSave

\* what POST answers after saveRecipe has returned or thrown
AfterSave(saved) ==
    [success |-> TRUE, recipe |-> TRUE, saved |-> saved, fromCache |-> FALSE]

\* saveRecipe: the update of the existing row, which succeeds or fails
SaveUpdate(r) ==
    /\ request[r].pc = "update"
    /\ \E saved \in BOOLEAN : Answered(r, AfterSave(saved))
    /\ UNCHANGED rows
    /\ UNCHANGED outsideSave

\* saveRecipe: the insert.  The unique index on (user_id, source_url)
\* rejects it when a row is there; it can also fail otherwise.
SaveInsert_unchecked(r) ==
    /\ request[r].pc = "insert"
    /\ \/ /\ rows' = rows + 1
          /\ Answered(r, AfterSave(TRUE))
       \/ /\ UNCHANGED rows
          /\ Answered(r, AfterSave(FALSE))
    /\ UNCHANGED outsideSave

SaveInsert(r) ==
    /\ request[r].pc = "insert"
    /\ \/ /\ rows = 0
          /\ rows' = 1
          /\ Answered(r, AfterSave(TRUE))
       \/ /\ rows > 0
          /\ UNCHANGED rows
          /\ request' = [request EXCEPT ![r].pc = "done", ![r].rejected = TRUE,
                                        ![r].answer = AfterSave(FALSE)]
       \/ /\ UNCHANGED rows
          /\ Answered(r, AfterSave(FALSE))
    /\ UNCHANGED outsideSave

SaveInit ==
    /\ PipelineIdle
    /\ FetcherIdle
    /\ JsonLdIdle
    /\ IngredientIdle
    /\ FieldsIdle
    /\ SyncIdle
    /\ SessionsIdle
    /\ rows = 0
    /\ request = [r \in Requests |-> NewRequest]

SaveNext ==
    \/ \E r \in Requests : Receive(r)
    \/ \E r \in Requests : CacheLookup(r)
    \/ \E r \in Requests : ExtractRequest(r)
    \/ \E r \in Requests : SaveSelect(r)
    \/ \E r \in Requests : SaveUpdate(r)
    \/ \E r \in Requests : SaveInsert(r)

SpecSave == SaveInit /\ [][SaveNext]_vars

----------------------------------------------------------------------------
(* Properties *)

UrlEntry == entry \in {"POST /api/extract", "extractRecipe", "extract"}
\* extract has returned or thrown
Returned == result.kind \in {"result", "thrown"}
GenerationSucceeded == Count("generate") > 0 /\ Count("generateFailed") = 0
Provenance(recipe) == <<recipe.extractionMethod, recipe.confidence>>
Methods == {"json-ld", "llm", "hybrid", "image"}

\* C1: a valid structured record whose AI refinement fails is returned as a
\* successful json-ld result (confidence 0.9) built from the record alone,
\* with the refinement warning appended
C1_RefineFailureKeepsStructured ==
    (UrlEntry /\ isValidRecipe(jsonLdRecipe) /\ Count("generateFailed") > 0)
    => /\ result.kind = "result"
       /\ result.success
       /\ result.error = NoError
       /\ result.recipe # Null
       /\ Provenance(result.recipe) = <<"json-ld", 90>>
       /\ result.recipe.title = jsonLdRecipe.title
       /\ result.recipe.ingredients = jsonLdRecipe.ingredients
       /\ result.recipe.steps = jsonLdRecipe.steps
       /\ result.warnings # <<>>
       /\ result.warnings[Len(result.warnings)]
             = "LLM refinement failed: Failed to parse recipe with LLM: No object generated"

C1_Witness ==
    /\ pc = "done"
    /\ entry = "extractRecipe"
    /\ isValidRecipe(jsonLdRecipe)
    /\ Count("generateFailed") = 1
    /\ result.success

\* C2: with a valid structured record and AI disabled or no credential the
\* result is a successful json-ld result of confidence 0.9 and no generation
\* call is ever made
C2_NoAiStructuredOnly ==
    (UrlEntry /\ isValidRecipe(jsonLdRecipe)
        /\ (~options.useLlm \/ ~options.apiKey))
    => /\ Count("generate") = 0
       /\ result.kind = "result"
       /\ result.success
       /\ result.recipe # Null
       /\ Provenance(result.recipe) = <<"json-ld", 90>>

C2_Witness ==
    /\ pc = "done"
    /\ isValidRecipe(jsonLdRecipe)
    /\ options.useLlm
    /\ ~options.apiKey
    /\ result.success
    /\ Count("generate") = 0

\* C3 as stated: every valid structured record whose refinement call
\* succeeds gives a hybrid result of confidence 0.85
C3_Original ==
    (UrlEntry /\ Returned /\ isValidRecipe(jsonLdRecipe) /\ GenerationSucceeded)
    => /\ result.success
       /\ result.recipe # Null
       /\ Provenance(result.recipe) = <<"hybrid", 85>>

\* C3 amended: a valid structured record whose refinement call succeeds gives
\* hybrid / 0.85 when it has at least 2 ingredients and at least 2 steps, and
\* llm / 0.75 when it has fewer of either
C3_RefineHybridFromTwo ==
    (UrlEntry /\ Returned /\ isValidRecipe(jsonLdRecipe) /\ GenerationSucceeded)
    => /\ result.success
       /\ result.recipe # Null
       /\ Provenance(result.recipe) =
             IF Len(jsonLdRecipe.ingredients) >= 2 /\ Len(jsonLdRecipe.steps) >= 2
             THEN <<"hybrid", 85>>
             ELSE <<"llm", 75>>

C3_Witness ==
    /\ pc = "done"
    /\ isValidRecipe(jsonLdRecipe)
    /\ GenerationSucceeded
    /\ Len(jsonLdRecipe.ingredients) = 2
    /\ Len(jsonLdRecipe.steps) = 2
    /\ result.recipe # Null
    /\ result.recipe.extractionMethod = "hybrid"

\* C4 as stated: without a valid structured record, a successful generation
\* call gives an llm result of confidence 0.75
C4_Original ==
    (UrlEntry /\ Returned /\ ~isValidRecipe(jsonLdRecipe) /\ GenerationSucceeded)
    => /\ result.success
       /\ result.recipe # Null
       /\ Provenance(result.recipe) = <<"llm", 75>>

\* C4 amended: without a valid structured record, a successful generation
\* call gives llm / 0.75 when the page had no Recipe markup at all, and
\* hybrid / 0.85 when it had a record that failed the validity gate
C4_FullExtractionTag ==
    (UrlEntry /\ Returned /\ ~isValidRecipe(jsonLdRecipe) /\ GenerationSucceeded)
    => /\ result.success
       /\ result.recipe # Null
       /\ Provenance(result.recipe) =
             IF jsonLdRecipe = Null THEN <<"llm", 75>> ELSE <<"hybrid", 85>>

C4_Witness ==
    /\ pc = "done"
    /\ jsonLdRecipe # Null
    /\ ~isValidRecipe(jsonLdRecipe)
    /\ GenerationSucceeded
    /\ result.recipe # Null
    /\ result.recipe.extractionMethod = "hybrid"

\* the structured parser returned, and what it returned is not valid
NoValidRecord ==
    /\ Count("parse") > 0
    /\ Count("parseFailed") = 0
    /\ ~isValidRecipe(jsonLdRecipe)

\* C5: without a valid structured record, AI disabled and credential missing
\* each end in a failed result with no generation call, and with two
\* different error messages
C5_PreconditionErrorsDistinct ==
    /\ (UrlEntry /\ NoValidRecord /\ ~options.useLlm)
       => /\ result = Failure(ErrLlmDisabled, <<>>)
          /\ Count("generate") = 0
    /\ (UrlEntry /\ NoValidRecord /\ options.useLlm /\ ~options.apiKey)
       => /\ result = Failure(ErrNoApiKey, <<>>)
          /\ result.error # ErrLlmDisabled
          /\ Count("generate") = 0

C5_Witness ==
    /\ pc = "done"
    /\ NoValidRecord
    /\ options.useLlm
    /\ ~options.apiKey
    /\ ~result.success
    /\ result.kind = "result"

\* C6 as stated: whatever the browser launch, the fetch, the structured parse
\* and the generation call do, the caller of extract / extractRecipe gets an
\* ExtractionResult, a success with a recipe and no error or a failure with
\* an error and no recipe, and never an exception
C6_AlwaysAResult ==
    (UrlEntry /\ pc \in {"respond", "done"} /\ response = Null)
    => /\ result.kind = "result"
       /\ IF result.success
          THEN result.recipe # Null /\ result.error = NoError
          ELSE result.recipe = Null /\ result.error # NoError /\ result.error # ""

\* C7: a failed fetch stage ends the extraction as failed with the fetch
\* error, without the structured parser or a generation call, and without a
\* second fetch
C7_FetchErrorIsFatal ==
    (UrlEntry /\ Count("fetchFailed") > 0)
    => /\ result.kind = "result"
       /\ ~result.success
       /\ result.recipe = Null
       /\ result.error \in { "Failed to fetch URL: " \o m :
                                m \in FetchErrors \cup {LaunchError} }
       /\ Count("parse") = 0
       /\ Count("generate") = 0
       /\ Count("smartFetch") = 1
       /\ Count("fetch") = 1
       /\ Count("fetchFailed") = 1
       /\ pc \notin {"smartFetch", "simpleFetch", "fetch", "parse", "refine", "llm"}

C7_Witness ==
    /\ pc = "done"
    /\ Count("fetchFailed") = 1
    /\ Count("simpleFetch") = 1
    /\ ~result.success

InputRejected ==
    \/ result.error = ErrInvalidUrl
    \/ response # Null /\ response.status = 400

\* C9 as stated: an input error is reported before any network fetch,
\* browser launch or generation call
C9_RejectedBeforeIo ==
    InputRejected
    => \A i \in 1..Len(calls) :
          calls[i] \notin {"launch", "simpleFetch", "fetch", "generate"}

\* smartFetch is over
SmartFetchOver ==
    Count("smartFetch") > 0 /\ pc \notin {"smartFetch", "simpleFetch", "fetch"}

\* C10: smartFetch goes straight to one rendered fetch for a listed host;
\* otherwise it makes one plain GET, returns its result iff it succeeded with
\* more than 500 characters of cleaned text, and else makes exactly one
\* rendered fetch whose outcome is the outcome of the call
C10_SmartFetchStrategy ==
    SmartFetchOver
    => /\ Count("smartFetch") = 1
       /\ IF \E d \in jsRequiredDomains : Includes(url.hostname, d)
          THEN Count("simpleFetch") = 0 /\ Count("fetch") = 1
          ELSE /\ Count("simpleFetch") = 1
               /\ Count("fetch") =
                     IF simpleResult # Null /\ simpleResult.cleanedText > 500
                     THEN 0 ELSE 1
               /\ Count("fetch") = 0 => fetchResult = simpleResult
       /\ Count("fetch") = 1
          => IF Count("fetchFailed") > 0
             THEN fetchResult = Null /\ result.kind = "result" /\ ~result.success
             ELSE fetchResult \in Pages

C10_Witness ==
    /\ SmartFetchOver
    /\ simpleResult # Null
    /\ simpleResult.cleanedText = 500
    /\ Count("fetch") = 1
    /\ fetchResult # Null
    /\ pc = "done"

\* C11 as stated: no stage is attempted a second time within one extraction:
\* not a failed page navigation, not a fetch, not a generation call
C11_Original ==
    UrlEntry
    => /\ Count("goto") <= 1
       /\ Count("fetch") <= 1
       /\ Count("generate") <= 1

\* C11 amended: within one extraction there is at most one plain GET, at most
\* one rendered fetch and at most one generation call, and a failure of the
\* rendered fetch or of the generation call is not followed by another
\* attempt; a failed page navigation is attempted once more (with the minimal
\* wait) inside the same rendered fetch and never a third time, and a failed
\* plain GET is followed by the one rendered fetch
C11_OnlyNavigationRetried ==
    UrlEntry
    => /\ Count("simpleFetch") <= 1
       /\ Count("fetch") <= 1
       /\ Count("generate") <= 1
       /\ Count("goto") <= 2
       /\ Count("goto") = 2 => Count("gotoFailed") >= 1
       /\ Count("gotoFailed") = 2 => Count("fetchFailed") = 1
       /\ Count("fetchFailed") > 0
          => pc \notin {"smartFetch", "simpleFetch", "fetch"}
       /\ Count("generateFailed") > 0 => pc \notin {"refine", "llm"}
       /\ (Count("simpleFetchFailed") > 0 /\ pc \notin {"simpleFetch", "fetch"})
          => Count("fetch") = 1

C11_Witness ==
    /\ pc = "done"
    /\ Count("goto") = 2
    /\ Count("gotoFailed") = 1
    /\ Count("generate") = 1
    /\ Count("generateFailed") = 1
    /\ result.success

\* the structured parser returned a record
ParsedRecord ==
    /\ UrlEntry
    /\ Count("parse") > 0
    /\ Count("parseFailed") = 0
    /\ jsonLdRecipe # Null

\* the text handed to a generation call was cut
TruncatedInput ==
    /\ Count("generate") > 0
    /\ fetchResult # Null
    /\ Truncates(fetchResult.cleanedText)

\* a refinement call failed
RefinementFailed ==
    isValidRecipe(jsonLdRecipe) /\ Count("generateFailed") > 0

\* C14 as stated: every non-fatal event of an extraction (refinement failure,
\* truncated input) has its warning in the warnings list of the result
C14_EveryEventWarned ==
    (UrlEntry /\ result.kind = "result")
    => Len(result.warnings) >= (IF RefinementFailed THEN 1 ELSE 0)
                               + (IF TruncatedInput THEN 1 ELSE 0)

\* C15 as stated: a recipe is returned with an empty image URL only when the
\* meta-image scan of the raw HTML finds nothing, on every path that
\* produces a recipe
C15_ImageScanOnEveryPath ==
    (UrlEntry /\ result.kind = "result" /\ result.success
        /\ result.recipe # Null /\ result.recipe.imageUrl = NoImage)
    => extractImageFromHtml(fetchResult) = NoImage

\* C16: isValidRecipe is true iff the record is non-null with a non-empty
\* title, at least 1 ingredient and at least 1 step, and extract goes to the
\* refine-or-accept branch exactly when it is true and to the AI-required
\* branch otherwise
C16_ValidityGate ==
    [][(pc = "parse" /\ pc' # "parse" /\ Count("parseFailed")' = 0)
       => LET record == jsonLdRecipe'
              valid == IF record = Null THEN FALSE
                       ELSE /\ record.title # ""
                            /\ Len(record.ingredients) >= 1
                            /\ Len(record.steps) >= 1
          IN  /\ isValidRecipe(record) <=> valid
              /\ IF valid
                 THEN \/ pc' = "refine"
                      \/ /\ result'.success
                         /\ result'.recipe = JsonLdOnlyRecipe(record)
                         /\ ~(options.useLlm /\ options.apiKey)
                 ELSE \/ pc' = "llm"
                      \/ /\ ~result'.success
                         /\ result'.error \in {ErrLlmDisabled, ErrNoApiKey}
      ]_vars

C16_Witness ==
    /\ pc = "refine"
    /\ jsonLdRecipe # Null
    /\ Len(jsonLdRecipe.ingredients) = 1
    /\ Len(jsonLdRecipe.steps) = 2

\* C17 as stated: a record with a title, exactly 1 ingredient and exactly 1
\* step is not valid
C17_Original ==
    (ParsedRecord /\ jsonLdRecipe.title # ""
        /\ Len(jsonLdRecipe.ingredients) = 1 /\ Len(jsonLdRecipe.steps) = 1)
    => ~isValidRecipe(jsonLdRecipe)

\* C17 amended: a record with a title, exactly 1 ingredient and exactly 1
\* step is valid: it is never answered with a failure for lack of AI, it is
\* returned as json-ld / 0.9 when AI is off, and with AI available it goes
\* to the model without partial data (llm / 0.75); a record with a title, 2
\* ingredients and 2 steps goes, with AI available, to the model as partial
\* data (one generation call, hybrid / 0.85) and is not returned without it
C17_OneIsValidTwoIsRefined ==
    (ParsedRecord /\ jsonLdRecipe.title # "")
    => LET n == Len(jsonLdRecipe.ingredients)
           m == Len(jsonLdRecipe.steps)
           ai == options.useLlm /\ options.apiKey
       IN  /\ (n = 1 /\ m = 1)
              => /\ isValidRecipe(jsonLdRecipe)
                 /\ pc # "llm"
                 /\ Returned => result.success
                 /\ (Returned /\ ~ai)
                    => Provenance(result.recipe) = <<"json-ld", 90>>
                 /\ (Returned /\ ai /\ GenerationSucceeded)
                    => Provenance(result.recipe) = <<"llm", 75>>
           /\ (n = 2 /\ m = 2 /\ ai)
              => /\ pc # "llm"
                 /\ Returned => Count("generate") = 1
                 /\ (Returned /\ GenerationSucceeded)
                    => Provenance(result.recipe) = <<"hybrid", 85>>

C17_Witness ==
    /\ pc = "done"
    /\ ParsedRecord
    /\ jsonLdRecipe.title # ""
    /\ Len(jsonLdRecipe.ingredients) = 1
    /\ Len(jsonLdRecipe.steps) = 1
    /\ GenerationSucceeded
    /\ result.recipe # Null
    /\ result.recipe.extractionMethod = "llm"

\* C12 as stated: at most one browser process is running at a time, and
\* every running browser is the this.browser of some UrlFetcher, so that a
\* close() can reach it
C12_BrowserSingleton ==
    /\ Cardinality(live) <= 1
    /\ \A b \in live : \E f \in Fetchers : thisBrowser[f] = b

\* the positions of fetch at which its context may be open
InFetchBody == {"newPage", "goto", "gotoCommit", "content", "closePage",
                "closeContext"}

\* C13: a task that is not inside the try / finally of fetch has no context
\* and no page open, however the fetch ended; and a browser stops running
\* only in a step of close(), never in a step of fetch
C13_ContextScopedBrowserKept ==
    /\ [](\A t \in Tasks :
             task[t].pc \notin InFetchBody
             => openContexts[t] = 0 /\ t \notin openPages)
    /\ [][\A b \in live \ live' :
             \E t \in Tasks : /\ task[t].pc = "closing"
                              /\ task[t].closing = b
                              /\ task'[t].pc # "closing"]_vars

C13_Witness ==
    \E t \in Tasks :
       /\ task[t].op = "extractRecipe"
       /\ task[t].pc = "closeCheck"
       /\ task[t].outcome = "navigation"
       /\ openContexts[t] = 0
       /\ t \notin openPages
       /\ thisBrowser[t] \in live

\* the declared type of an object is 'Recipe', compared case-insensitively,
\* as a single value or as a member of a list
DeclaresRecipe(obj) ==
    \E k \in 1..Len(obj.type.values) :
       /\ Len(obj.type.values[k]) = 6
       /\ \A j \in 1..6 : obj.type.values[k][j] \in {RecipeName[j], recipeName[j]}

\* the objects of the well-formed blocks of a document that declare the type
\* Recipe: the top-level objects, the members of their graph containers, the
\* items of top-level lists and the members of their graph containers
RecipeObjects(doc) ==
    UNION { IF doc[i].kind = "malformed" THEN {}
            ELSE { Path(i, "self", 0, 0) : x \in { y \in {doc[i]} :
                        y.kind = "object" /\ DeclaresRecipe(y) } }
                 \cup { Path(i, "graph", k, 0) : k \in { n \in
                        1..Len(doc[i].graph.items) :
                        DeclaresRecipe(doc[i].graph.items[n]) } }
                 \cup { Path(i, "list", k, 0) : k \in { n \in
                        1..Len(doc[i].items) : DeclaresRecipe(doc[i].items[n]) } }
                 \cup UNION { { Path(i, "listGraph", k, m) : m \in { n \in
                        1..Len(doc[i].items[k].graph.items) :
                        DeclaresRecipe(doc[i].items[k].graph.items[n]) } } :
                        k \in 1..Len(doc[i].items) }
          : i \in 1..Len(doc) }

\* document order: an object comes before the members of its graph container
Before(p, q) ==
    \/ p.block < q.block
    \/ p.block = q.block /\ p.index < q.index
    \/ p.block = q.block /\ p.index = q.index /\ p.member < q.member

\* C18 as stated: the object parseRecipeFromHtml builds its record from is
\* the first object of type Recipe in document order over all blocks, graph
\* containers and top-level lists included, and null iff there is none
C18_FirstRecipeInDocumentOrder ==
    jsonLd.scanned
    => IF RecipeObjects(document) = {}
       THEN jsonLd.found = Null
       ELSE /\ jsonLd.found \in RecipeObjects(document)
            /\ \A q \in RecipeObjects(document) : ~Before(q, jsonLd.found)

\* the line '<quantity> <unit word> <item>'
Line(quantity, unitWord, item) ==
    quantity \o <<" ">> \o unitWord \o <<" ">> \o item

UnitCodeOf(unitWord) ==
    HEBREW_UNIT_MAP[CHOOSE k \in 1..Len(HEBREW_UNIT_MAP) :
                       HEBREW_UNIT_MAP[k].word = unitWord].code

FractionValueOf(word) ==
    HEBREW_FRACTION_MAP[CHOOSE k \in 1..Len(HEBREW_FRACTION_MAP) :
                           HEBREW_FRACTION_MAP[k].word = word].value

HebrewItems == {flour, sugar, salt}

\* C19 as stated: a line '<numeral> <Hebrew unit word> <item>' is parsed to
\* the numeral as quantity, the code of the word as unit, null comments and
\* exactly the item text as item
C19_NumeralUnitItem ==
    \A numeral \in Numerals, unitWord \in HebrewUnitWords, item \in HebrewItems :
       (ingredientStr = Line(numeral, unitWord, item) /\ ingredient # Null)
       => /\ ingredient.quantity = NumeralValue(numeral)
          /\ ingredient.unit = UnitCodeOf(unitWord)
          /\ ingredient.comments = NoComments
          /\ ingredient.item = item

\* C20 as stated: a line '<fraction word> <unit> <item>' is parsed to the
\* tabled decimal of the word as quantity, for every word of the fraction
\* table
C20_FractionWordQuantity ==
    \A word \in FractionWords, unitWord \in HebrewUnitWords, item \in HebrewItems :
       (ingredientStr = Line(word, unitWord, item) /\ ingredient # Null)
       => ingredient.quantity = FractionValueOf(word)

\* the quantities a line may start with, as the rules of resolution read
\* them: a plain decimal n is n, 'a/b' is a divided by b, 'a b/c' is a plus b
\* divided by c
WrittenQuantities ==
    { [text |-> numeral, value |-> NumeralValue(numeral)] : numeral \in Numerals }
    \cup { [text |-> <<"1",".","5">>, value |-> Number(3, 2)],
           [text |-> <<"1","/","2">>, value |-> Number(1, 2)],
           [text |-> <<"1"," ","1","/","2">>, value |-> Number(3, 2)] }

\* C21 as stated: the leading quantity of a line is resolved to the decimal
\* it writes: a plain decimal to itself, '1/2' to 0.5 and '1 1/2' to 1.5
C21_LeadingQuantityResolved ==
    \A written \in WrittenQuantities, unitWord \in LineUnits, item \in LineItems :
       (ingredientStr = JoinWords(<<written.text, unitWord, item>>)
        /\ ingredient # Null)
       => ingredient.quantity = written.value

\* C22 as stated: a line '<numeral> <item>' that names no unit has unit
\* null, and a line '<unit word> <item>' without a quantity has quantity null
\* and the code of its unit word
C22_UnitOfPresentToken ==
    /\ \A numeral \in Numerals, item \in LineItems :
          (ingredientStr = JoinWords(<<numeral, item>>) /\ ingredient # Null)
          => /\ ingredient.unit = NoUnit
             /\ ingredient.quantity = NumeralValue(numeral)
    /\ \A unitWord \in HebrewUnitWords, item \in LineItems :
          (ingredientStr = JoinWords(<<unitWord, item>>) /\ ingredient # Null)
          => /\ ingredient.quantity = NoQuantity
             /\ ingredient.unit = UnitCodeOf(unitWord)

\* the words of a text: its maximal runs without white space
WordsOf(s) ==
    { SubSeq(s, i, j) : i \in 1..Len(s), j \in 1..Len(s) }
    \cap { SubSeq(s, i, j) :
             <<i, j>> \in { p \in (1..Len(s)) \X (1..Len(s)) :
                /\ p[1] <= p[2]
                /\ \A k \in p[1]..p[2] : s[k] \notin WhiteSpace
                /\ (p[1] = 1 \/ s[p[1] - 1] \in WhiteSpace)
                /\ (p[2] = Len(s) \/ s[p[2] + 1] \in WhiteSpace) } }

\* the text without its parentheses
RECURSIVE WithoutParentheses(_)
WithoutParentheses(s) ==
    IF s = <<>> THEN <<>>
    ELSE (IF Head(s) \in {"(", ")"} THEN <<>> ELSE <<Head(s)>>)
         \o WithoutParentheses(Tail(s))

\* a word that writes a quantity: a numeral run or a word of the fraction
\* table
IsQuantityWord(w) ==
    \/ \A k \in 1..Len(w) : IsDigit(w[k]) \/ w[k] \in {"/", "."}
    \/ \E word \in FractionWords : w \in WordsOf(word)

\* the unit tokens: the keys of the two unit tables
UnitTokens ==
    HebrewUnitWords \cup { englishUnits[k].word : k \in 1..Len(englishUnits) }

\* the words of the line that are neither in the item nor in the comments
LostWords ==
    WordsOf(WithoutParentheses(ingredientStr))
    \ (WordsOf(ingredient.item)
       \cup IF ingredient.comments = NoComments THEN {}
            ELSE WordsOf(ingredient.comments))

\* C23 as stated: every word of the line that is neither part of the
\* quantity nor the one matched unit token is in item or in comments
C23_UnmatchedTextKept ==
    ingredient # Null
    => \E unitToken \in UnitTokens \cup {<<>>} :
          \A w \in LostWords :
             IsQuantityWord(w) \/ toLowerCase(w) \in WordsOf(unitToken)

\* String(quantity) for a quantity with at most three decimals
NumberToString(q) ==
    LET decimals == SetMin({ k \in 0..3 : (q.num * Pow10(k)) % q.den = 0 })
        scaled == (q.num * Pow10(decimals)) \div q.den
        whole == scaled \div Pow10(decimals)
        part == scaled % Pow10(decimals)
        partDigits == DigitsOf(part)
        zeros == [k \in 1..(decimals - Len(partDigits)) |-> "0"]
    IN  IF decimals = 0 THEN DigitsOf(whole)
        ELSE DigitsOf(whole) \o <<".">> \o zeros \o partDigits

\* the unit codes that are themselves unit tokens of the English table
WrittenUnitCodes == <<
    [code |-> "cup", text |-> <<"c","u","p">>],
    [code |-> "tbsp", text |-> <<"t","b","s","p">>],
    [code |-> "tsp", text |-> <<"t","s","p">>],
    [code |-> "g", text |-> <<"g">>],
    [code |-> "kg", text |-> <<"k","g">>],
    [code |-> "ml", text |-> <<"m","l">>],
    [code |-> "l", text |-> <<"l">>],
    [code |-> "oz", text |-> <<"o","z">>],
    [code |-> "lb", text |-> <<"l","b">>],
    [code |-> "piece", text |-> <<"p","i","e","c","e">>],
    [code |-> "slice", text |-> <<"s","l","i","c","e">>],
    [code |-> "clove", text |-> <<"c","l","o","v","e">>],
    [code |-> "bunch", text |-> <<"b","u","n","c","h">>],
    [code |-> "package", text |-> <<"p","a","c","k","a","g","e">>],
    [code |-> "can", text |-> <<"c","a","n">>],
    [code |-> "jar", text |-> <<"j","a","r">>],
    [code |-> "bag", text |-> <<"b","a","g">>],
    [code |-> "pinch", text |-> <<"p","i","n","c","h">>],
    [code |-> "dash", text |-> <<"d","a","s","h">>]
    >>

IsWrittenUnitCode(code) ==
    \E k \in 1..Len(WrittenUnitCodes) : WrittenUnitCodes[k].code = code
UnitCodeText(code) ==
    WrittenUnitCodes[CHOOSE k \in 1..Len(WrittenUnitCodes) :
                        WrittenUnitCodes[k].code = code].text

\* the line '<quantity> <unit> <item>' written from a parsed ingredient,
\* without the parts that are null
Reprepended(parsed) ==
    JoinWords(<<IF parsed.quantity = NoQuantity THEN <<>>
                ELSE NumberToString(parsed.quantity),
                IF parsed.unit = NoUnit THEN <<>>
                ELSE UnitCodeText(parsed.unit),
                parsed.item>>)

\* C24 as stated: parsing the line written from the extracted quantity,
\* unit and item gives the same item again
C24_ItemIdempotent ==
    (ingredient # Null
     /\ (ingredient.unit = NoUnit \/ IsWrittenUnitCode(ingredient.unit)))
    => parseIngredient(Reprepended(ingredient)).item = ingredient.item

\* the nearest whole number to a / b, a half counting upwards
Nearest(a, b) ==
    CHOOSE r \in 0..(a + 1) : 2 * b * r - b <= 2 * a /\ 2 * a < 2 * b * r + b

Present(n) == IF n = -1 THEN 0 ELSE n

\* C27: for every duration PT#H#M#S with any of the three parts absent,
\* parseDuration returns hours * 60 + minutes + round(seconds / 60), an
\* absent part counting as 0, and parseDuration(undefined) is null
C27_DurationMinutes ==
    (field.kind = "duration" /\ extracted.done)
    => /\ \A h, m, sec \in DurationNumbers \cup {-1} :
             field.value = DurationText(h, m, sec)
             => extracted.value
                = Present(h) * 60 + Present(m) + Nearest(Present(sec), 60)
       /\ field.value = undefined => extracted.value = NoMinutes

\* a duration with its three parts, whose seconds round upwards, has been
\* parsed
C27_Witness ==
    /\ field.kind = "duration" /\ extracted.done
    /\ field.value = DurationText(1, 2, 30)
    /\ extracted.value = 63

\* a value that resolves: a string, or an object with the url / name key
Resolves(value) ==
    /\ value.text # ""
    /\ value.kind = "string" \/ (value.kind = "object" /\ value.keyed)

\* the values of a property in order: the elements of a list, or the value
Candidates(value) == IF value.kind = "array" THEN value.items ELSE <<value>>

FirstResolved(value) ==
    LET resolving == { k \in 1..Len(Candidates(value)) :
                          Resolves(Candidates(value)[k]) }
    IN  IF resolving = {} THEN NoText
        ELSE Candidates(value)[SetMin(resolving)].text

\* C26 as stated: an image or author given as a string, an object with the
\* url / name key or a list of these resolves to the first value of it that
\* resolves, and to null only when none does
C26_FirstResolvableWins ==
    (field.kind \in {"image", "author"} /\ extracted.done)
    => extracted.value = FirstResolved(field.value)

\* the lines of a newline-delimited text
RECURSIVE LinesOf(_)
LinesOf(s) ==
    LET newlines == { k \in 1..Len(s) : s[k] = "\n" }
    IN  IF newlines = {} THEN <<s>>
        ELSE <<SubSeq(s, 1, SetMin(newlines) - 1)>>
             \o LinesOf(SubSeq(s, SetMin(newlines) + 1, Len(s)))

\* a line without its leading ordinal marker '<digits>.'
WithoutOrdinal(line) ==
    LET d == DigitRun(line, 1)
    IN  IF d > 0 /\ d + 1 <= Len(line) /\ line[d + 1] = "."
        THEN trim(SubSeq(line, d + 2, Len(line)))
        ELSE trim(line)

\* every step of the instructions once, in source order: of a string its
\* lines without their ordinal markers, of a list its strings, the texts of
\* its step objects and the steps of its nested lists
RECURSIVE StepsOfList(_)
StepsOfList(items) ==
    IF items = <<>> THEN <<>>
    ELSE (IF Head(items).kind \in {"string", "step"}
          THEN <<trim(Head(items).text)>>
          ELSE StepsOfList(Head(items).items))
         \o StepsOfList(Tail(items))
StepsOf(instructions) ==
    IF instructions.kind = "string"
    THEN nonEmpty([k \in 1..Len(LinesOf(instructions.text)) |->
                      WithoutOrdinal(LinesOf(instructions.text)[k])])
    ELSE nonEmpty(StepsOfList(instructions.items))

\* C25 as stated: instructions given as a newline-delimited string, a list
\* of strings, a list of step objects or a nested list normalize to the flat
\* list of their non-empty steps, each once and in source order, the ordinal
\* markers being stripped from the lines of a string only
C25_InstructionsFlattened ==
    (field.kind = "recipeInstructions" /\ extracted.done)
    => extracted.value = StepsOf(field.value)

\* C28 as stated: the state scheduled last is eventually passed to
\* syncToDatabase, unless a later state is scheduled or cancel is called
\* after it; in particular a state scheduled while a sync is in flight
C28_LatestStateEventuallySent ==
    \A n \in 1..MaxScheduled :
       (scheduled = n) ~> (n \in sent \/ scheduled > n \/ cancelledAt >= n)

ActiveSessions(recipeId) ==
    { id \in 1..Len(sessions) :
         sessions[id].recipe = recipeId /\ sessions[id].status = "active" }

\* C29 as stated: after any sequence of operations on the cooking sessions
\* each recipe has at most one session whose status is 'active'
C29_OneActiveSessionPerRecipe ==
    \A recipeId \in Recipes : Cardinality(ActiveSessions(recipeId)) <= 1

\* C30: under any interleaving of the extract requests of one user for one
\* URL at most one row is stored for the pair, and a request whose
\* extraction succeeded answers success with the recipe, also when its save
\* was rejected
C30_OneRowAndSuccess ==
    /\ rows <= 1
    /\ \A r \in Requests :
          (request[r].pc = "done" /\ request[r].extraction)
          => (request[r].answer.success /\ request[r].answer.recipe)

\* two requests have extracted and answered: one stored the row, the insert
\* of the other was rejected
C30_Witness ==
    \E r, other \in Requests :
       /\ request[r].pc = "done" /\ request[other].pc = "done"
       /\ request[r].extraction /\ request[other].extraction
       /\ request[r].answer.saved /\ ~request[r].answer.fromCache
       /\ request[other].rejected /\ request[other].answer.success
       /\ rows = 1

====
